---- MODULE Spec2Model ----
(***************************************************************************)
(* A model of the timer hooks of commons-dev-open/react-hooks:             *)
(* useDebounce (src/src/hooks/useClickOutside.ts, lines 140-219),          *)
(* useThrottle (src/unnamed/part_002, lines 45-162) and useTimeout         *)
(* (src/unnamed/part_000, lines 36-82).                                    *)
(*                                                                         *)
(* One hook instance is modelled.  Init chooses which hook it is, whether  *)
(* it wraps a value or a function, and its first delay.  The host is a     *)
(* single-threaded event loop: every handler below (a render with its      *)
(* effects, a call of the returned proxy, one timer callback) runs to      *)
(* completion as one step.  The clock is discrete; a host timer becomes    *)
(* due when the clock reaches its due time and the clock does not move on  *)
(* while a due timer is waiting, but any other handler may still run at    *)
(* that same instant before the timer's callback does.                     *)
(*                                                                         *)
(* Payloads are numbered: the n-th input (value change or proxy call)      *)
(* carries payload n, the initial value is 0, so that a delivery can be    *)
(* traced back to the input it came from.  A re-render that passes the     *)
(* same value and delay re-runs no effect and is therefore no step.        *)
(*                                                                         *)
(* Callables are numbered too: the wrapped action of the first render is   *)
(* callable 0 and every re-render with another callable passes the next    *)
(* number; in action mode valueOrFn holds that number.                     *)
(*                                                                         *)
(* lastRanRef (part_002:53) is written but never read by the hook and is   *)
(* left out.                                                               *)
(*                                                                         *)
(* The same instance may instead be one of the hooks that keep a value in  *)
(* a store, useLocalStorage (src/src/hooks/useLocalStorage.ts),            *)
(* useSessionStorage (src/unnamed/part_003) and useCookie                  *)
(* (src/src/hooks/useCookie.ts), useClickOutside                           *)
(* (src/src/hooks/useClickOutside.ts, lines 43-90), useToggle              *)
(* (src/src/hooks/useToggle.ts) or usePrevious (src/unnamed/part_004).     *)
(* Each family of hooks has its own variables and its own specification;   *)
(* the variables of the other families stay at their initial values.       *)
(*                                                                         *)
(* useState is modelled with its queue of updates where a hook passes it   *)
(* updater functions (useToggle), and with the call React makes of a       *)
(* function passed as the initial state (useDebounce, useThrottle).        *)
(***************************************************************************)
EXTENDS Integers, Sequences, FiniteSets, TLC

\* ------------------------------------------------------------------ bounds
MaxDelay == 3
MaxInputs == 3
MaxTime == 7
MaxDelayChanges == 1

\* re-renders with another callable, cleanup runs and clear() calls
MaxFnChanges == MaxDelayChanges
MaxDisposals == MaxDelayChanges + 1
MaxClears == MaxInputs
\* firings whose wrapped action calls the proxy
MaxReentries == MaxDelayChanges
\* runs of useClickOutside's listener effect
MaxHandlers == MaxDelayChanges + 2
\* the largest number a caller stores
MaxNumber == MaxInputs
\* useToggle: calls of toggle and setValue, and how many one batch holds
MaxCalls == MaxInputs + 1
MaxBatch == MaxInputs
\* useToggle, usePrevious: renders of one instance
MaxRenders == MaxInputs + 1

Delays == 0..MaxDelay
\* every delay a caller can pass, a negative one included
AnyDelays == (0 - 1)..MaxDelay
StartTime == MaxDelay + 1
EndTime == StartTime + MaxTime
\* inputs and re-renders stop early enough for every armed timer to run
Horizon == EndTime - MaxDelay

Undefined == 0
Never == 0 - 1
NegInfinity == 0 - 1000
\* useTimeout's delay may be null (or undefined)
Null == 0 - 2
RateHooks == {"useDebounce", "useThrottle"}

VARIABLES
  hook,             \* which hook the instance is
  isFunction,       \* typeof valueOrFn === 'function'
  phase,            \* "rendered" (effects not yet run) | "mounted" | "unmounted"
  now,              \* Date.now()
  delay,            \* the delay prop of the latest render
  valueOrFn,        \* the value, or the callable, of the latest render
  fnRef,            \* useDebounce, useThrottle: the callable to invoke
  callbackRef,      \* useTimeout: the callable to invoke
  proxy,            \* identity of the function useCallback handed out
  timers,           \* the host's live timers: records [id, due, ms, cb, env]
  debouncedValue,   \* useDebounce: useState
  throttledValue,   \* useThrottle: useState
  timeoutRef,       \* handle of the action-mode timer
  valueTimeoutRef,  \* handle of the value-mode timer
  latestValueRef,   \* useDebounce
  pendingValueRef,  \* useThrottle
  latestArgsRef,    \* argument list of the latest proxy call
  isFirstRunRef,    \* useThrottle
  fnLastRanRef,     \* useThrottle
  isInitialMountRef,\* useThrottle
  lastScheduledRef, \* useThrottle
  \* ---- observation of the run (history, never read by the handlers)
  inputCount,       \* number of inputs so far; the latest input's payload
  lastInputTime,    \* arrival time of the latest input
  lastInputImmediate,\* the latest input was delivered inside its own step
  burstCount,       \* inputs that opened a burst (first, or >= delay after the previous)
  intermediate,     \* payloads followed by another input less than delay later
  preempted,        \* some input arrived while a due timer's callback was waiting
  cadence,          \* every input so far arrived exactly delay after the last firing
  fireCount,        \* number of firings so far
  lastFire,         \* the latest firing
  prevFireTime,     \* time of the firing before it
  leadTime,         \* time of the latest leading-edge firing
  firesAfterLead,   \* firings later than leadTime since then
  mountTime,        \* time the mount effects ran
  delayChanges,     \* number of changes of the delay prop since construction
  invoked,          \* the argument list of the wrapped action's latest call
  invokedFn,        \* the callable that call went to
  invocations,      \* number of calls of the wrapped action so far
  firesAfterUnmount,\* firings since the unmount
  callsAfterUnmount,\* proxy calls since the unmount
  lastFireIn,       \* the time of the latest firing, by mode
  disposals,        \* runs of the unmount cleanups
  clears,           \* calls of useTimeout's clear() in a row (the clock aside)
  fnChangedPending, \* a callable was replaced while a timer was pending
  reentries,        \* firings whose wrapped action called the proxy
  callbackTrace,    \* the statements the latest timer callback ran, in order
  \* ---- useTimeout: the latest step that decides about the timer
  lastOp,           \* "none" | "mount" | "delay" | "clear" | "reset"
  lastOpTime,       \* when it ran
  firesSinceOp,     \* firings since then
  \* ---- useLocalStorage, useSessionStorage, useCookie
  items,            \* what each store holds under the hook's key
  storedValue,      \* useState, the latest state
  renderedValue,    \* storedValue as the latest render saw it
  initialValue,     \* the initialValue prop of the latest render
  initialValueRef,  \* useLocalStorage, useSessionStorage
  expected,         \* the state useState would hold after the same calls (history)
  lastCall,         \* the latest call or event and the state before it (history)
  \* ---- useClickOutside (it shares phase, valueOrFn and callbackRef)
  eventType,        \* the eventType option of the latest render
  enabled,          \* the enabled option of the latest render
  listeners,        \* the document's listeners: records [type, handler]
  handler,          \* the handleClickOutside of the latest effect run
  refCurrent,       \* ref.current: the element, or NoElement
  lastClick,        \* the latest document event and what it caused (history)
  \* ---- useToggle
  value,            \* useState, the state of the latest render
  toggleInitialValue, \* the initialValue argument of the latest render
  updates,          \* useState's queue: the updates not rendered yet
  toggle,           \* the toggle function of the latest render (an identity)
  setToggleValue,   \* the setValue function of the latest render (an identity)
  toggled,          \* the calls and renders so far (history)
  \* ---- usePrevious
  prevValue,        \* the value argument of the latest render
  prevRef,          \* ref.current
  prevResult,       \* what the latest render returned
  prevRenders       \* the renders so far and the value before the latest (history)

prog == <<hook, isFunction, phase, now, delay, valueOrFn, fnRef, callbackRef,
          proxy, timers,
          debouncedValue, throttledValue, timeoutRef, valueTimeoutRef,
          latestValueRef, pendingValueRef, latestArgsRef, isFirstRunRef,
          fnLastRanRef, isInitialMountRef, lastScheduledRef>>
\* prog without phase, valueOrFn and callbackRef
progCore == <<hook, isFunction, now, delay, fnRef, proxy, timers,
              debouncedValue, throttledValue, timeoutRef, valueTimeoutRef,
              latestValueRef, pendingValueRef, latestArgsRef, isFirstRunRef,
              fnLastRanRef, isInitialMountRef, lastScheduledRef>>
\* prog without phase
progRest == <<progCore, valueOrFn, callbackRef>>
obs == <<inputCount, lastInputTime, lastInputImmediate, burstCount,
         intermediate, preempted, cadence, fireCount, lastFire, prevFireTime, leadTime,
         firesAfterLead, mountTime, delayChanges, invoked, invokedFn,
         firesAfterUnmount, callsAfterUnmount, lastFireIn, invocations>>
\* marks left by particular steps
marks == <<disposals, clears, fnChangedPending, reentries, callbackTrace>>
ctl == <<lastOp, lastOpTime, firesSinceOp>>
\* the timer hooks' state
timing == <<prog, obs, marks, ctl>>
\* the state of the hooks that keep a value in a store
store == <<items, storedValue, renderedValue, initialValue, initialValueRef,
           expected, lastCall>>
\* the state of useClickOutside
click == <<eventType, enabled, listeners, handler, refCurrent, lastClick>>
\* the state of useToggle and of usePrevious
simple == <<value, toggleInitialValue, updates, toggle, setToggleValue, toggled,
            prevValue, prevRef, prevResult, prevRenders>>
otherHooks == <<store, click, simple>>
vars == <<timing, otherHooks>>

\* ------------------------------------------------------------ host timers
\* setTimeout: a new live timer, due ms from now (the host treats a
\* negative ms as 0).  ms is the delay that was passed, cb names the
\* callback and env is the payload in the scope of the closure that was
\* passed (the value or the argument list of the step that armed the
\* timer).
SetTimeout(ts, id, cb, ms, env) ==
  ts \cup {[id |-> id, due |-> now + (IF ms < 0 THEN 0 ELSE ms), ms |-> ms,
            cb |-> cb, env |-> env]}

\* clearTimeout: the timer with that handle, if live, is gone
ClearTimeout(ts, id) == {t \in ts : t.id # id}

\* `if (ref.current) { clearTimeout(ref.current); ref.current = undefined }`
ClearIfSet(ts, ref) == IF ref # Undefined THEN ClearTimeout(ts, ref) ELSE ts

\* a handle the host has not handed out among the live timers and the refs
FreshId(ts, held) ==
  LET used == {t.id : t \in ts} \cup held
  IN CHOOSE i \in 1..(Cardinality(used) + 1) :
       i \notin used /\ \A j \in 1..(i - 1) : j \in used

Due(t) == t.due <= now


\* ------------------------------------------------- observation of the run
PayloadOf(args) == IF args = <<>> THEN 0 ELSE args[1]

NoFire == [t |-> Never, payload |-> 0, edge |-> "none", latest |-> 0,
           inputTime |-> Never]

\* What one step did, seen from outside: isInput - the step is an input
\* (a value change or a proxy call); fired - it delivered a payload, on
\* the given edge.
ObserveStep(isInput, fired, payload, edge) ==
  LET n == IF isInput THEN inputCount + 1 ELSE inputCount
      at == IF isInput THEN now ELSE lastInputTime
  IN /\ inputCount' = n
     /\ lastInputTime' = at
     /\ lastInputImmediate' = IF isInput THEN fired ELSE lastInputImmediate
     /\ burstCount' = IF isInput /\ (inputCount = 0 \/ now - lastInputTime >= delay)
                      THEN burstCount + 1 ELSE burstCount
     /\ intermediate' = IF isInput /\ inputCount >= 1 /\ now - lastInputTime < delay
                        THEN intermediate \cup {inputCount} ELSE intermediate
     /\ preempted' = (preempted \/ (isInput /\ \E t \in timers : Due(t)))
     /\ cadence' = IF isInput
                   THEN cadence /\ (IF fireCount = 0
                                    THEN isFunction \/ now - mountTime = delay
                                    ELSE now - lastFire.t = delay)
                   ELSE cadence
     /\ fireCount' = IF fired THEN fireCount + 1 ELSE fireCount
     /\ lastFire' = IF fired
                    THEN [t |-> now, payload |-> payload, edge |-> edge,
                          latest |-> n, inputTime |-> at]
                    ELSE lastFire
     /\ prevFireTime' = IF fired THEN lastFire.t ELSE prevFireTime
     /\ leadTime' = IF fired /\ edge = "leading" THEN now ELSE leadTime
     /\ firesAfterLead' = IF fired /\ edge = "leading" THEN 0
                          ELSE IF fired /\ leadTime # Never /\ now > leadTime
                               THEN firesAfterLead + 1
                               ELSE firesAfterLead
     /\ firesAfterUnmount' = IF fired /\ phase = "unmounted"
                             THEN firesAfterUnmount + 1 ELSE firesAfterUnmount
     /\ callsAfterUnmount' = IF isInput /\ phase = "unmounted"
                             THEN callsAfterUnmount + 1 ELSE callsAfterUnmount
     /\ lastFireIn' = IF fired THEN [lastFireIn EXCEPT ![isFunction] = now]
                      ELSE lastFireIn
     /\ invocations' = IF fired /\ isFunction THEN invocations + 1
                       ELSE invocations

\* a step that is neither a cleanup run, a clear(), a callable change nor
\* a re-entrant firing; it ends a row of clear() calls
Observe(isInput, fired, payload, edge) ==
  /\ ObserveStep(isInput, fired, payload, edge)
  /\ clears' = 0
  /\ UNCHANGED <<disposals, fnChangedPending, reentries, callbackTrace>>
  /\ UNCHANGED ctl

\* The statements of a timer callback of useDebounce and useThrottle, in
\* the order of the source: "deliver" reads the latest payload and hands it
\* to setState or to the wrapped action, "timestamp" stores Date.now() in
\* the last-run refs, "clear" resets the handle.
DebounceValueTimeoutBody == <<"deliver", "clear">>
DebounceFnTimeoutBody == <<"deliver", "clear">>
ThrottleValueTimeoutBody == <<"deliver", "timestamp", "clear">>
ThrottleFnTimeoutBody == <<"timestamp", "deliver", "clear">>

\* statement a runs before statement b in that body
RunsBefore(body, a, b) ==
  \E i, j \in 1..Len(body) : i < j /\ body[i] = a /\ body[j] = b

\* a run of a timer callback with that body
ObserveCallback(body, fired, payload, edge) ==
  /\ ObserveStep(FALSE, fired, payload, edge)
  /\ callbackTrace' = body
  /\ clears' = 0
  /\ UNCHANGED <<disposals, fnChangedPending, reentries>>
  /\ UNCHANGED ctl

\* A step of useTimeout: op names what it decided about the timer ("none"
\* for a step that decided nothing), fired - the callback ran.
TimeoutObserve(op, fired) ==
  /\ ObserveStep(FALSE, fired, 0, IF fired THEN "trailing" ELSE "none")
  /\ lastOp' = IF op # "none" THEN op ELSE lastOp
  /\ lastOpTime' = IF op # "none" THEN now ELSE lastOpTime
  /\ firesSinceOp' = IF op # "none" THEN 0
                     ELSE IF fired THEN firesSinceOp + 1 ELSE firesSinceOp
  /\ UNCHANGED <<disposals, fnChangedPending, reentries, callbackTrace>>

\* ------------------------------------------------- values and the stores
\* JavaScript values a caller stores: null, undefined, false, true, the
\* numbers 0..MaxNumber and the strings '' (v = 0) and 'a' (v = 1)
JsNull == [type |-> "null", v |-> 0]
JsUndefined == [type |-> "undefined", v |-> 0]
JsBoolean(b) == [type |-> "boolean", v |-> IF b THEN 1 ELSE 0]
JsNumber(n) == [type |-> "number", v |-> n]
JsString(i) == [type |-> "string", v |-> i]
JsValues ==
  {JsNull, JsUndefined, JsBoolean(FALSE), JsString(0)}
    \cup {JsNumber(n) : n \in 0..MaxNumber}

\* JSON.stringify; of undefined it returns undefined, which a store keeps
\* as the text "undefined"
JsonStringify(x) ==
  CASE x.type = "null" -> "null"
    [] x.type = "undefined" -> "undefined"
    [] x.type = "boolean" -> (IF x.v = 1 THEN "true" ELSE "false")
    [] x.type = "number" -> <<"0", "1", "2", "3", "4", "5", "6", "7", "8", "9">>[x.v + 1]
    [] x.type = "string" -> (IF x.v = 0 THEN "\"\"" ELSE "\"a\"")

\* the texts JSON.parse accepts, among those of the model
JsonValid(text) == \E x \in JsValues \ {JsUndefined} : JsonStringify(x) = text

\* JSON.parse of a text it accepts (it throws on every other text)
JsonParse(text) ==
  CHOOSE x \in JsValues \ {JsUndefined} : JsonStringify(x) = text

\* encodeURIComponent: a double quote becomes %22
EncodeURIComponent(text) ==
  CASE text = "\"\"" -> "%22%22"
    [] text = "\"a\"" -> "%22a%22"
    [] OTHER -> text

\* getItem's null: the store holds nothing under the key
NoItem == "<no item>"
\* item texts written by other code: JSON, the empty text, broken JSON
ForeignTexts == {"1", "\"\"", "null", "", "{bad"}

StorageHooks == {"useLocalStorage", "useSessionStorage"}
StoreHooks == StorageHooks \cup {"useCookie"}
Stores == {"localStorage", "sessionStorage", "cookie"}
\* the store the hook reads and writes
OwnStore ==
  CASE hook = "useLocalStorage" -> "localStorage"
    [] hook = "useSessionStorage" -> "sessionStorage"
    [] OTHER -> "cookie"
\* the hook's key and another one
Key == "key"
Keys == {Key, "other"}

NoCall == [op |-> "none", key |-> Key, area |-> "localStorage",
           newValue |-> NoItem, value |-> JsUndefined, before |-> JsUndefined,
           threw |-> FALSE]

\* the store variables of an instance that is no store hook
StoreIdle ==
  /\ items = [a \in Stores |-> NoItem]
  /\ storedValue = JsUndefined
  /\ renderedValue = JsUndefined
  /\ initialValue = JsUndefined
  /\ initialValueRef = JsUndefined
  /\ expected = JsUndefined
  /\ lastCall = NoCall

\* ref.current = null, event.target = null
NoElement == "<none>"
NoClick == [op |-> "none", type |-> "click", target |-> NoElement,
            invocations |-> 0, threw |-> FALSE, fn |-> 0]

\* the variables of useClickOutside for an instance of another hook
ClickIdle ==
  /\ eventType = "mousedown"
  /\ enabled = TRUE
  /\ listeners = {}
  /\ handler = 0
  /\ refCurrent = NoElement
  /\ lastClick = NoClick

\* no call yet: the initial value, the fold of the calls over it, the
\* numbers of toggle and setValue calls and of renders
NoCalls(iv) == [first |-> iv, expected |-> iv, toggles |-> 0, sets |-> 0,
                renders |-> 1]
\* the first render of usePrevious; `before` is the value of the render
\* before the latest one
FirstRender == [count |-> 1, before |-> JsUndefined]

\* the variables of useToggle and usePrevious for an instance of another hook
SimpleIdle ==
  /\ value = FALSE
  /\ toggleInitialValue = FALSE
  /\ updates = <<>>
  /\ toggle = 0
  /\ setToggleValue = 0
  /\ toggled = NoCalls(FALSE)
  /\ prevValue = JsUndefined
  /\ prevRef = JsUndefined
  /\ prevResult = JsUndefined
  /\ prevRenders = FirstRender

\* ------------------------------------------------------------------- Init
\* `useState(isFunction ? valueOrFn : valueOrFn)`: React takes a function
\* passed as the initial state for a lazy initialiser and calls it, once,
\* during the first render.
UseStateInitialCalls(callable) == IF callable THEN 1 ELSE 0

\* The state after the first render: useState holds the initial value and
\* every useRef its initial content; no effect has run yet.
TimingInit(hooks, delays) ==
  /\ hook \in hooks
  /\ isFunction \in (IF hook \in RateHooks THEN BOOLEAN ELSE {TRUE})
  /\ delay \in (IF hook = "useTimeout" THEN delays \cup {Null} ELSE delays)
  /\ phase = "rendered"
  /\ now = StartTime
  /\ valueOrFn = 0
  /\ fnRef = valueOrFn
  /\ callbackRef = valueOrFn
  /\ proxy = 0
  /\ timers = {}
  /\ debouncedValue = 0
  /\ throttledValue = 0
  /\ timeoutRef = Undefined
  /\ valueTimeoutRef = Undefined
  /\ latestValueRef = 0
  /\ pendingValueRef = 0
  /\ latestArgsRef = <<>>
  /\ isFirstRunRef = TRUE
  /\ fnLastRanRef = NegInfinity
  /\ isInitialMountRef = TRUE
  /\ lastScheduledRef = 0
  /\ inputCount = 0
  /\ lastInputTime = Never
  /\ lastInputImmediate = FALSE
  /\ burstCount = 0
  /\ intermediate = {}
  /\ preempted = FALSE
  /\ cadence = TRUE
  /\ fireCount = 0
  /\ lastFire = NoFire
  /\ prevFireTime = Never
  /\ leadTime = Never
  /\ firesAfterLead = 0
  /\ mountTime = Never
  /\ delayChanges = 0
  /\ invoked = <<>>
  /\ invokedFn = Never
  /\ firesAfterUnmount = 0
  /\ callsAfterUnmount = 0
  /\ lastFireIn = [m \in BOOLEAN |-> Never]
  /\ invocations = (IF hook \in RateHooks THEN UseStateInitialCalls(isFunction)
                    ELSE 0)
  /\ disposals = 0
  /\ clears = 0
  /\ fnChangedPending = FALSE
  /\ reentries = 0
  /\ callbackTrace = <<>>
  /\ lastOp = "none"
  /\ lastOpTime = Never
  /\ firesSinceOp = 0

\* an instance of one of the timer hooks
InitWith(hooks, delays) ==
  StoreIdle /\ ClickIdle /\ SimpleIdle /\ TimingInit(hooks, delays)

\* a useDebounce or useThrottle instance with a delay of 0 or more
Init == InitWith(RateHooks, Delays)

\* ------------------------------------------------- renders of every hook
\* a slip: the effect that refreshes the ref is missing
FnRefAfterEffect_Stale(f) == fnRef

\* fnRef.current = valueOrFn (deps [valueOrFn]); useTimeout's
\* callbackRef.current = callback (deps [callback])
FnRefAfterEffect(f) == f

\* a slip: the callback does not look at what fnRef holds
FnRefCallable_Unchecked == TRUE

\* typeof fnRef.current === 'function', the test a timer callback makes
\* before it invokes.  fnRef.current is the valueOrFn of the latest render
\* (useRef's initial value, then the fnRef effect of every render that
\* passes another one), so it is callable exactly when that is.
FnRefCallable == isFunction

\* useCallback(..., [delay]): a render with another delay hands out a new
\* function, any other render the one it handed out before
ProxyAfterRender(d) == IF d # delay THEN proxy + 1 ELSE proxy

\* ------------------------------------------------------------ useDebounce
\* The value effect's body (deps [valueOrFn, delay]) for value v, delay d,
\* starting from the live timers ts and the handle ref: cancel, store the
\* latest value, arm for the full delay.
DebounceValueEffectTimers(ts, ref, v, d) ==
  LET cleared == ClearIfSet(ts, ref)
      id == FreshId(cleared, {timeoutRef})
  IN [timers |-> SetTimeout(cleared, id, "value", d, v), ref |-> id]

\* a slip: the ref keeps the value it was created with
LatestValueAfterEffect_Stale(v) == latestValueRef

\* latestValueRef.current = valueOrFn, in both effects
LatestValueAfterEffect(v) == v

\* mount effects of useDebounce
DebounceMount ==
  /\ hook = "useDebounce"
  /\ phase = "rendered"
  /\ phase' = "mounted"
  /\ mountTime' = now
  /\ IF isFunction
     THEN UNCHANGED <<timers, valueTimeoutRef, latestValueRef>>
     ELSE LET r == DebounceValueEffectTimers(timers, valueTimeoutRef,
                                             valueOrFn, delay)
          IN /\ timers' = r.timers
             /\ valueTimeoutRef' = r.ref
             /\ latestValueRef' = LatestValueAfterEffect(valueOrFn)
  /\ Observe(FALSE, FALSE, 0, "none")
  /\ UNCHANGED <<otherHooks, hook, isFunction, fnRef, callbackRef, proxy, now, delay, valueOrFn, debouncedValue,
                 throttledValue, timeoutRef, pendingValueRef, latestArgsRef,
                 isFirstRunRef, fnLastRanRef, isInitialMountRef,
                 lastScheduledRef, delayChanges, invoked, invokedFn>>

\* A re-render of value-mode useDebounce with value v and delay d, at least
\* one of them new: the previous effect's cleanup, then the effect.
DebounceRerender(v, d) ==
  /\ hook = "useDebounce" /\ ~isFunction
  /\ phase = "mounted"
  /\ now <= Horizon
  /\ v # valueOrFn \/ d # delay
  /\ LET cleaned == ClearIfSet(timers, valueTimeoutRef)
         r == DebounceValueEffectTimers(cleaned, Undefined, v, d)
     IN /\ timers' = r.timers
        /\ valueTimeoutRef' = r.ref
  /\ latestValueRef' = LatestValueAfterEffect(v)
  /\ valueOrFn' = v
  /\ delay' = d
  /\ delayChanges' = IF d # delay THEN delayChanges + 1 ELSE delayChanges
  /\ fnRef' = FnRefAfterEffect(v)
  /\ proxy' = ProxyAfterRender(d)
  /\ Observe(v # valueOrFn, FALSE, 0, "none")
  /\ UNCHANGED <<otherHooks, hook, isFunction, callbackRef, phase, now, debouncedValue, throttledValue,
                 timeoutRef, pendingValueRef, latestArgsRef, isFirstRunRef,
                 fnLastRanRef, isInitialMountRef, lastScheduledRef, mountTime,
                 invoked, invokedFn>>

\* The value timer's callback: setDebouncedValue(latestValueRef.current).
DebounceValueTimeout(t) ==
  /\ hook = "useDebounce"
  /\ t \in timers /\ t.cb = "value" /\ Due(t)
  /\ timers' = timers \ {t}
  /\ debouncedValue' = latestValueRef
  /\ valueTimeoutRef' = Undefined
  /\ ObserveCallback(DebounceValueTimeoutBody, TRUE, latestValueRef, "trailing")
  /\ UNCHANGED <<otherHooks, hook, isFunction, fnRef, callbackRef, proxy, phase, now, delay, valueOrFn,
                 throttledValue, timeoutRef, latestValueRef, pendingValueRef,
                 latestArgsRef, isFirstRunRef, fnLastRanRef, isInitialMountRef,
                 lastScheduledRef, mountTime, delayChanges, invoked, invokedFn>>

\* a slip: a pending timer is left alone instead of being re-armed
DebounceFnTimers_KeepPending(ts, ref, args, d) ==
  IF ref # Undefined
  THEN [timers |-> ts, ref |-> ref]
  ELSE LET id == FreshId(ts, {valueTimeoutRef})
       IN [timers |-> SetTimeout(ts, id, "fn", d, args), ref |-> id]

\* debouncedFn's timer handling: cancel the pending timer, arm for the
\* full delay d
DebounceFnTimers(ts, ref, args, d) ==
  LET cleared == ClearIfSet(ts, ref)
      id == FreshId(cleared, {valueTimeoutRef})
  IN [timers |-> SetTimeout(cleared, id, "fn", d, args), ref |-> id]

\* a slip: with a delay of 0 the call goes straight through
DebouncedFn_SyncZero(args) ==
  /\ hook = "useDebounce" /\ isFunction
  /\ phase # "rendered"
  /\ now <= Horizon
  /\ latestArgsRef' = args
  /\ IF delay = 0
     THEN /\ timers' = ClearIfSet(timers, timeoutRef)
          /\ timeoutRef' = Undefined
          /\ invoked' = args
          /\ invokedFn' = fnRef
          /\ Observe(TRUE, TRUE, PayloadOf(args), "leading")
     ELSE /\ LET r == DebounceFnTimers(timers, timeoutRef, args, delay)
             IN /\ timers' = r.timers
                /\ timeoutRef' = r.ref
          /\ Observe(TRUE, FALSE, 0, "none")
          /\ UNCHANGED <<invoked, invokedFn>>
  /\ UNCHANGED <<otherHooks, hook, isFunction, fnRef, callbackRef, proxy, phase, now,
                 delay, valueOrFn, debouncedValue, throttledValue,
                 valueTimeoutRef, latestValueRef, pendingValueRef,
                 isFirstRunRef, fnLastRanRef, isInitialMountRef,
                 lastScheduledRef, mountTime, delayChanges>>

\* debouncedFn(...args), the proxy of the latest render (it closes over
\* that render's delay).  It stays callable after unmount.
DebouncedFn(args) ==
  /\ hook = "useDebounce" /\ isFunction
  /\ phase # "rendered"
  /\ now <= Horizon
  /\ LET r == DebounceFnTimers(timers, timeoutRef, args, delay)
     IN /\ timers' = r.timers
        /\ timeoutRef' = r.ref
  /\ latestArgsRef' = args
  /\ Observe(TRUE, FALSE, 0, "none")
  /\ UNCHANGED <<otherHooks, hook, isFunction, fnRef, callbackRef, proxy, phase, now, delay, valueOrFn,
                 debouncedValue, throttledValue, valueTimeoutRef,
                 latestValueRef, pendingValueRef, isFirstRunRef, fnLastRanRef,
                 isInitialMountRef, lastScheduledRef, mountTime, delayChanges,
                 invoked, invokedFn>>

\* the argument list the debounce callback passes on
DebounceFnTimeoutArgs(t) == latestArgsRef

\* The action timer's callback: `if (typeof currentFn === 'function')
\* currentFn(...latestArgsRef.current)`, then the handle is reset.
DebounceFnTimeout(t) ==
  /\ hook = "useDebounce"
  /\ t \in timers /\ t.cb = "fn" /\ Due(t)
  /\ timers' = timers \ {t}
  /\ invoked' = IF FnRefCallable THEN DebounceFnTimeoutArgs(t) ELSE invoked
  /\ invokedFn' = IF FnRefCallable THEN fnRef ELSE invokedFn
  /\ timeoutRef' = Undefined
  /\ ObserveCallback(DebounceFnTimeoutBody, FnRefCallable,
                     PayloadOf(DebounceFnTimeoutArgs(t)), "trailing")
  /\ UNCHANGED <<otherHooks, hook, isFunction, fnRef, callbackRef, proxy, phase, now, delay, valueOrFn,
                 debouncedValue, throttledValue, valueTimeoutRef,
                 latestValueRef, pendingValueRef, latestArgsRef, isFirstRunRef,
                 fnLastRanRef, isInitialMountRef, lastScheduledRef, mountTime,
                 delayChanges>>

\* The action timer's callback when the wrapped action itself calls the
\* proxy of the latest render, passing on the arguments it was given: the
\* inner debouncedFn call clears the handle (the timer that is firing) and
\* arms a new timer; back in the callback, timeoutRef.current = undefined.
DebounceFnTimeoutReentrant(t) ==
  /\ hook = "useDebounce" /\ isFunction
  /\ t \in timers /\ t.cb = "fn" /\ Due(t)
  /\ now <= Horizon
  /\ reentries < MaxReentries
  /\ LET args == DebounceFnTimeoutArgs(t)
         r == DebounceFnTimers(timers \ {t}, timeoutRef, args, delay)
     IN /\ timers' = r.timers
        /\ latestArgsRef' = args
        /\ invoked' = args
        /\ invokedFn' = fnRef
        /\ ObserveStep(FALSE, TRUE, PayloadOf(args), "trailing")
  /\ timeoutRef' = Undefined
  /\ reentries' = reentries + 1
  /\ callbackTrace' = DebounceFnTimeoutBody
  /\ clears' = 0
  /\ UNCHANGED <<disposals, fnChangedPending>>
  /\ UNCHANGED ctl
  /\ UNCHANGED <<otherHooks, hook, isFunction, fnRef, callbackRef, proxy, phase, now,
                 delay, valueOrFn, debouncedValue, throttledValue,
                 valueTimeoutRef, latestValueRef, pendingValueRef,
                 isFirstRunRef, fnLastRanRef, isInitialMountRef,
                 lastScheduledRef, mountTime, delayChanges>>

\* ------------------------------------------------------------ useThrottle
\* a slip: the mount run leaves lastScheduledRef at its initial 0
ThrottleMount_NoTimestamp ==
  /\ hook = "useThrottle"
  /\ phase = "rendered"
  /\ phase' = "mounted"
  /\ mountTime' = now
  /\ isInitialMountRef' = (isInitialMountRef /\ isFunction)
  /\ Observe(FALSE, FALSE, 0, "none")
  /\ UNCHANGED <<otherHooks, hook, isFunction, fnRef, callbackRef, proxy, now, delay, valueOrFn, timers,
                 debouncedValue, throttledValue, timeoutRef, valueTimeoutRef,
                 latestValueRef, pendingValueRef, latestArgsRef, isFirstRunRef,
                 fnLastRanRef, lastScheduledRef, delayChanges, invoked, invokedFn>>

\* mount effects of useThrottle: the value effect only initialises the
\* timestamps (isInitialMountRef) and returns without a cleanup.
ThrottleMount ==
  /\ hook = "useThrottle"
  /\ phase = "rendered"
  /\ phase' = "mounted"
  /\ mountTime' = now
  /\ IF isFunction
     THEN UNCHANGED <<isInitialMountRef, lastScheduledRef>>
     ELSE /\ isInitialMountRef' = FALSE
          /\ lastScheduledRef' = now
  /\ Observe(FALSE, FALSE, 0, "none")
  /\ UNCHANGED <<otherHooks, hook, isFunction, fnRef, callbackRef, proxy, now, delay, valueOrFn, timers,
                 debouncedValue, throttledValue, timeoutRef, valueTimeoutRef,
                 latestValueRef, pendingValueRef, latestArgsRef, isFirstRunRef,
                 fnLastRanRef, delayChanges, invoked, invokedFn>>

\* a slip: > instead of >=
ThrottleValueElapsed_Strict(d) == now - lastScheduledRef > d

\* a slip: the elapsed time is not looked at
ThrottleValueElapsed_Always(d) == now - lastScheduledRef >= 0

\* timeSinceLastScheduled >= delay
ThrottleValueElapsed(d) == now - lastScheduledRef >= d

\* a slip: a timer is armed only when none was pending, although the
\* cleanup has cancelled the pending one
ThrottleValueTrailing_KeepPending(ts, ref, v, remainingTime) ==
  IF ref # Undefined
  THEN [timers |-> ClearTimeout(ts, ref), ref |-> Undefined]
  ELSE LET id == FreshId(ts, {timeoutRef})
       IN [timers |-> SetTimeout(ts, id, "value", remainingTime, v),
           ref |-> id]

\* The value effect's trailing branch: the pending timer is gone (the
\* cleanup and the effect both clear it) and one is armed for the
\* remaining time.
ThrottleValueTrailing(ts, ref, v, remainingTime) ==
  LET cleaned == ClearIfSet(ts, ref)
      id == FreshId(cleaned, {timeoutRef})
  IN [timers |-> SetTimeout(cleaned, id, "value", remainingTime, v),
      ref |-> id]

\* A re-render of value-mode useThrottle with value v and delay d, at least
\* one of them new: the previous effect's cleanup, then the effect.
ThrottleRerender(v, d) ==
  /\ hook = "useThrottle" /\ ~isFunction
  /\ phase = "mounted"
  /\ now <= Horizon
  /\ v # valueOrFn \/ d # delay
  /\ valueOrFn' = v
  /\ delay' = d
  /\ delayChanges' = IF d # delay THEN delayChanges + 1 ELSE delayChanges
  /\ fnRef' = FnRefAfterEffect(v)
  /\ proxy' = ProxyAfterRender(d)
  /\ pendingValueRef' = v
  /\ LET cleaned == ClearIfSet(timers, valueTimeoutRef)
         timeSinceLastScheduled == now - lastScheduledRef
     IN IF ThrottleValueElapsed(d)
        THEN /\ throttledValue' = v
             /\ lastScheduledRef' = now
             /\ timers' = cleaned
             /\ valueTimeoutRef' = Undefined
             /\ Observe(v # valueOrFn, TRUE, v, "leading")
        ELSE LET r == ThrottleValueTrailing(timers, valueTimeoutRef, v,
                                            d - timeSinceLastScheduled)
             IN /\ timers' = r.timers
                /\ valueTimeoutRef' = r.ref
                /\ Observe(v # valueOrFn, FALSE, 0, "none")
                /\ UNCHANGED <<throttledValue, lastScheduledRef>>
  /\ UNCHANGED <<otherHooks, hook, isFunction, callbackRef, phase, now, debouncedValue, timeoutRef,
                 latestValueRef, latestArgsRef, isFirstRunRef, fnLastRanRef,
                 isInitialMountRef, mountTime, invoked, invokedFn>>

\* The value timer's callback: setThrottledValue(pendingValueRef.current).
ThrottleValueTimeout(t) ==
  /\ hook = "useThrottle"
  /\ t \in timers /\ t.cb = "value" /\ Due(t)
  /\ timers' = timers \ {t}
  /\ throttledValue' = pendingValueRef
  /\ lastScheduledRef' = now
  /\ valueTimeoutRef' = Undefined
  /\ ObserveCallback(ThrottleValueTimeoutBody, TRUE, pendingValueRef, "trailing")
  /\ UNCHANGED <<otherHooks, hook, isFunction, fnRef, callbackRef, proxy, phase, now, delay, valueOrFn,
                 debouncedValue, timeoutRef, latestValueRef, pendingValueRef,
                 latestArgsRef, isFirstRunRef, fnLastRanRef, isInitialMountRef,
                 mountTime, delayChanges, invoked, invokedFn>>

\* a slip: > instead of >=
ThrottleFnLeading_Strict == isFirstRunRef \/ now - fnLastRanRef > delay

\* isFirstRunRef.current || timeSinceLastRun >= delay
ThrottleFnLeading == isFirstRunRef \/ now - fnLastRanRef >= delay

\* a slip: the trailing timer is armed for the full delay
ThrottleFnRemaining_Full(timeSinceLastRun) == delay

\* delay - timeSinceLastRun, the delay of the trailing timer
ThrottleFnRemaining(timeSinceLastRun) == delay - timeSinceLastRun

\* throttledFn(...args), the proxy of the latest render (it closes over
\* that render's delay).  It stays callable after unmount.
ThrottledFn(args) ==
  /\ hook = "useThrottle" /\ isFunction
  /\ phase # "rendered"
  /\ now <= Horizon
  /\ latestArgsRef' = args
  /\ LET timeSinceLastRun == now - fnLastRanRef
     IN IF ThrottleFnLeading
        THEN /\ isFirstRunRef' = FALSE
             /\ fnLastRanRef' = now
             /\ invoked' = args
             /\ invokedFn' = fnRef
             /\ Observe(TRUE, TRUE, PayloadOf(args), "leading")
             /\ UNCHANGED <<timers, timeoutRef>>
        ELSE LET cleared == ClearIfSet(timers, timeoutRef)
                 id == FreshId(cleared, {valueTimeoutRef})
             IN /\ timers' = SetTimeout(cleared, id, "fn",
                                        ThrottleFnRemaining(timeSinceLastRun),
                                        args)
                /\ timeoutRef' = id
                /\ Observe(TRUE, FALSE, 0, "none")
                /\ UNCHANGED <<isFirstRunRef, fnLastRanRef, invoked, invokedFn>>
  /\ UNCHANGED <<otherHooks, hook, isFunction, fnRef, callbackRef, proxy, phase, now, delay, valueOrFn,
                 debouncedValue, throttledValue, valueTimeoutRef,
                 latestValueRef, pendingValueRef, isInitialMountRef,
                 lastScheduledRef, mountTime, delayChanges>>

\* a slip: the callback passes the arguments of the call that armed it
ThrottleFnTimeoutArgs_ArmTime(t) == t.env

\* the argument list the throttle callback passes on
ThrottleFnTimeoutArgs(t) == latestArgsRef

\* The action timer's callback: fnLastRanRef.current = Date.now();
\* currentFn(...latestArgsRef.current); timeoutRef.current = undefined.
ThrottleFnTimeout(t) ==
  /\ hook = "useThrottle"
  /\ t \in timers /\ t.cb = "fn" /\ Due(t)
  /\ timers' = timers \ {t}
  /\ fnLastRanRef' = now
  /\ invoked' = IF FnRefCallable THEN ThrottleFnTimeoutArgs(t) ELSE invoked
  /\ invokedFn' = IF FnRefCallable THEN fnRef ELSE invokedFn
  /\ timeoutRef' = Undefined
  /\ ObserveCallback(ThrottleFnTimeoutBody, FnRefCallable,
                     PayloadOf(ThrottleFnTimeoutArgs(t)), "trailing")
  /\ UNCHANGED <<otherHooks, hook, isFunction, fnRef, callbackRef, proxy, phase, now, delay, valueOrFn,
                 debouncedValue, throttledValue, valueTimeoutRef,
                 latestValueRef, pendingValueRef, latestArgsRef, isFirstRunRef,
                 isInitialMountRef, lastScheduledRef, mountTime, delayChanges>>

\* The action timer's callback when the wrapped action itself calls the
\* proxy of the latest render, passing on the arguments it was given.  The
\* inner throttledFn call finds the refs as the statements before the
\* delivery left them; with the timestamp just stored it measures no
\* elapsed time and, for a delay above 0, arms a timer for the whole delay.
\* Back in the callback, timeoutRef.current = undefined.
ThrottleFnTimeoutReentrant(t) ==
  /\ hook = "useThrottle" /\ isFunction
  /\ t \in timers /\ t.cb = "fn" /\ Due(t)
  /\ now <= Horizon
  /\ reentries < MaxReentries
  /\ LET body == ThrottleFnTimeoutBody
         args == ThrottleFnTimeoutArgs(t)
         lastRan == IF RunsBefore(body, "timestamp", "deliver")
                    THEN now ELSE fnLastRanRef
         timeSinceLastRun == now - lastRan
         cleared == ClearIfSet(timers \ {t}, timeoutRef)
         id == FreshId(cleared, {valueTimeoutRef})
     IN /\ ~(isFirstRunRef \/ timeSinceLastRun >= delay)
        /\ timers' = SetTimeout(cleared, id, "fn", delay - timeSinceLastRun, args)
        /\ timeoutRef' = IF RunsBefore(body, "deliver", "clear")
                         THEN Undefined ELSE id
        /\ latestArgsRef' = args
        /\ invoked' = args
        /\ invokedFn' = fnRef
        /\ callbackTrace' = body
        /\ ObserveStep(FALSE, TRUE, PayloadOf(args), "trailing")
  /\ fnLastRanRef' = now
  /\ reentries' = reentries + 1
  /\ clears' = 0
  /\ UNCHANGED <<disposals, fnChangedPending>>
  /\ UNCHANGED ctl
  /\ UNCHANGED <<otherHooks, hook, isFunction, fnRef, callbackRef, proxy, phase, now,
                 delay, valueOrFn, debouncedValue, throttledValue,
                 valueTimeoutRef, latestValueRef, pendingValueRef,
                 isFirstRunRef, isInitialMountRef, lastScheduledRef,
                 mountTime, delayChanges>>

\* ------------------------------------------------------------- useTimeout
\* a slip: every number counts as a delay
TimeoutValid_AnyNumber(d) == d # Null

\* delay !== null && delay !== undefined && delay >= 0
TimeoutValid(d) == d # Null /\ d >= 0

\* `if (delay valid) timeoutRef.current = setTimeout(..., delay)`, in the
\* timeout effect and in reset()
TimeoutArm(ts, ref, d) ==
  IF TimeoutValid(d)
  THEN LET id == FreshId(ts, {})
       IN [timers |-> SetTimeout(ts, id, "timeout", d, 0), ref |-> id]
  ELSE [timers |-> ts, ref |-> ref]

\* mount effects of useTimeout
TimeoutMount ==
  /\ hook = "useTimeout"
  /\ phase = "rendered"
  /\ phase' = "mounted"
  /\ mountTime' = now
  /\ callbackRef' = FnRefAfterEffect(valueOrFn)
  /\ LET r == TimeoutArm(timers, timeoutRef, delay)
     IN /\ timers' = r.timers
        /\ timeoutRef' = r.ref
  /\ TimeoutObserve("mount", FALSE)
  /\ clears' = 0
  /\ UNCHANGED <<otherHooks, hook, isFunction, fnRef, proxy, now, delay, valueOrFn,
                 debouncedValue, throttledValue, valueTimeoutRef,
                 latestValueRef, pendingValueRef, latestArgsRef, isFirstRunRef,
                 fnLastRanRef, isInitialMountRef, lastScheduledRef,
                 delayChanges, invoked, invokedFn>>

\* A re-render of useTimeout with callback cb and delay d, at least one of
\* them new.  A new callback refreshes callbackRef; a new delay runs the
\* previous timeout effect's cleanup, when it armed, and then the effect.
TimeoutRerender(cb, d) ==
  /\ hook = "useTimeout"
  /\ phase = "mounted"
  /\ now <= Horizon
  /\ cb # valueOrFn \/ d # delay
  /\ valueOrFn' = cb
  /\ callbackRef' = FnRefAfterEffect(cb)
  /\ delay' = d
  /\ delayChanges' = IF d # delay THEN delayChanges + 1 ELSE delayChanges
  /\ proxy' = ProxyAfterRender(d)
  /\ IF d # delay
     THEN LET cleaned == IF TimeoutValid(delay)
                         THEN ClearIfSet(timers, timeoutRef) ELSE timers
              r == TimeoutArm(cleaned, timeoutRef, d)
          IN /\ timers' = r.timers
             /\ timeoutRef' = r.ref
     ELSE UNCHANGED <<timers, timeoutRef>>
  /\ TimeoutObserve(IF d # delay THEN "delay" ELSE "none", FALSE)
  /\ clears' = 0
  /\ UNCHANGED <<otherHooks, hook, isFunction, fnRef, phase, now, debouncedValue,
                 throttledValue, valueTimeoutRef, latestValueRef,
                 pendingValueRef, latestArgsRef, isFirstRunRef, fnLastRanRef,
                 isInitialMountRef, lastScheduledRef, mountTime, invoked,
                 invokedFn>>

\* a slip: clear() forgets the handle and leaves the timer armed
TimeoutClearTimers_RefOnly(ts, ref) == ts

\* clear(): `if (timeoutRef.current) clearTimeout(timeoutRef.current)`
TimeoutClearTimers(ts, ref) == ClearIfSet(ts, ref)

\* clear(); it stays callable after unmount.
TimeoutClear ==
  /\ hook = "useTimeout"
  /\ phase # "rendered"
  /\ clears < MaxClears
  /\ timers' = TimeoutClearTimers(timers, timeoutRef)
  /\ timeoutRef' = Undefined
  /\ TimeoutObserve("clear", FALSE)
  /\ clears' = clears + 1
  /\ UNCHANGED <<otherHooks, hook, isFunction, fnRef, callbackRef, proxy, phase, now,
                 delay, valueOrFn, debouncedValue, throttledValue,
                 valueTimeoutRef, latestValueRef, pendingValueRef,
                 latestArgsRef, isFirstRunRef, fnLastRanRef, isInitialMountRef,
                 lastScheduledRef, mountTime, delayChanges, invoked,
                 invokedFn>>

\* a slip: reset() arms without clearing first
TimeoutReset_NoClear ==
  /\ hook = "useTimeout"
  /\ phase # "rendered"
  /\ now <= Horizon
  /\ fireCount + Cardinality(timers) < MaxInputs
  /\ LET r == TimeoutArm(timers, timeoutRef, delay)
     IN /\ timers' = r.timers
        /\ timeoutRef' = r.ref
  /\ TimeoutObserve("reset", FALSE)
  /\ clears' = 0
  /\ UNCHANGED <<otherHooks, hook, isFunction, fnRef, callbackRef, proxy, phase, now,
                 delay, valueOrFn, debouncedValue, throttledValue,
                 valueTimeoutRef, latestValueRef, pendingValueRef,
                 latestArgsRef, isFirstRunRef, fnLastRanRef, isInitialMountRef,
                 lastScheduledRef, mountTime, delayChanges, invoked,
                 invokedFn>>

\* reset() of the latest render (it closes over that render's delay):
\* clear(), then arm again.  It stays callable after unmount.
TimeoutReset ==
  /\ hook = "useTimeout"
  /\ phase # "rendered"
  /\ now <= Horizon
  /\ fireCount + Cardinality(timers) < MaxInputs
  /\ LET r == TimeoutArm(TimeoutClearTimers(timers, timeoutRef), Undefined,
                         delay)
     IN /\ timers' = r.timers
        /\ timeoutRef' = r.ref
  /\ TimeoutObserve("reset", FALSE)
  /\ clears' = 0
  /\ UNCHANGED <<otherHooks, hook, isFunction, fnRef, callbackRef, proxy, phase, now,
                 delay, valueOrFn, debouncedValue, throttledValue,
                 valueTimeoutRef, latestValueRef, pendingValueRef,
                 latestArgsRef, isFirstRunRef, fnLastRanRef, isInitialMountRef,
                 lastScheduledRef, mountTime, delayChanges, invoked,
                 invokedFn>>

\* a slip: the timer's closure calls the callback that was replaced
TimeoutCallbackFn_Replaced ==
  IF callbackRef > 0 THEN callbackRef - 1 ELSE callbackRef

\* callbackRef.current, read when the timer's callback runs
TimeoutCallbackFn == callbackRef

\* The timer's callback: callbackRef.current(); the handle stays in
\* timeoutRef.
TimeoutCallback(t) ==
  /\ hook = "useTimeout"
  /\ t \in timers /\ t.cb = "timeout" /\ Due(t)
  /\ timers' = timers \ {t}
  /\ invoked' = <<>>
  /\ invokedFn' = TimeoutCallbackFn
  /\ TimeoutObserve("none", TRUE)
  /\ clears' = 0
  /\ UNCHANGED <<otherHooks, hook, isFunction, fnRef, callbackRef, proxy, phase, now,
                 delay, valueOrFn, debouncedValue, throttledValue, timeoutRef,
                 valueTimeoutRef, latestValueRef, pendingValueRef,
                 latestArgsRef, isFirstRunRef, fnLastRanRef, isInitialMountRef,
                 lastScheduledRef, mountTime, delayChanges>>

\* -------------------------------------------------------------- all hooks
\* A re-render in action mode with a new delay: useCallback([delay]) hands
\* out a proxy closing over d; the value effect returns at once and no
\* cleanup touches the action timer.
ProxyRerender(d) ==
  /\ hook \in RateHooks /\ isFunction
  /\ phase = "mounted"
  /\ now <= Horizon
  /\ d # delay
  /\ delay' = d
  /\ delayChanges' = delayChanges + 1
  /\ proxy' = ProxyAfterRender(d)
  /\ Observe(FALSE, FALSE, 0, "none")
  /\ UNCHANGED <<otherHooks, hook, isFunction, fnRef, callbackRef, phase, now, valueOrFn, timers,
                 debouncedValue, throttledValue, timeoutRef, valueTimeoutRef,
                 latestValueRef, pendingValueRef, latestArgsRef, isFirstRunRef,
                 fnLastRanRef, isInitialMountRef, lastScheduledRef, mountTime,
                 invoked, invokedFn>>

\* A re-render in action mode with another callable f and the same delay:
\* only the fnRef effect runs.
FnRerender(f) ==
  /\ hook \in RateHooks /\ isFunction
  /\ phase = "mounted"
  /\ now <= Horizon
  /\ f # valueOrFn
  /\ valueOrFn' = f
  /\ fnRef' = FnRefAfterEffect(f)
  /\ proxy' = ProxyAfterRender(delay)
  /\ ObserveStep(FALSE, FALSE, 0, "none")
  /\ fnChangedPending' = (fnChangedPending \/ timers # {})
  /\ clears' = 0
  /\ UNCHANGED <<disposals, reentries, callbackTrace>>
  /\ UNCHANGED ctl
  /\ UNCHANGED <<otherHooks, hook, isFunction, callbackRef, phase, now, delay, timers,
                 debouncedValue, throttledValue, timeoutRef, valueTimeoutRef,
                 latestValueRef, pendingValueRef, latestArgsRef, isFirstRunRef,
                 fnLastRanRef, isInitialMountRef, lastScheduledRef, mountTime,
                 delayChanges, invoked, invokedFn>>

\* A re-render of action-mode useDebounce that passes the plain value v
\* instead of a callable, with the same delay: the fnRef effect stores v,
\* and the value effect, which returned at once so far and left no
\* cleanup, arms the value timer.  The action timer is not touched.
DebounceToValue(v) ==
  /\ hook = "useDebounce" /\ isFunction
  /\ phase = "mounted"
  /\ now <= Horizon
  /\ isFunction' = FALSE
  /\ valueOrFn' = v
  /\ fnRef' = FnRefAfterEffect(v)
  /\ latestValueRef' = LatestValueAfterEffect(v)
  /\ proxy' = ProxyAfterRender(delay)
  /\ LET r == DebounceValueEffectTimers(timers, valueTimeoutRef, v, delay)
     IN /\ timers' = r.timers
        /\ valueTimeoutRef' = r.ref
  /\ Observe(FALSE, FALSE, 0, "none")
  /\ UNCHANGED <<otherHooks, hook, callbackRef, phase, now, delay, debouncedValue,
                 throttledValue, timeoutRef, pendingValueRef, latestArgsRef,
                 isFirstRunRef, fnLastRanRef, isInitialMountRef,
                 lastScheduledRef, mountTime, delayChanges, invoked,
                 invokedFn>>

\* The same re-render of action-mode useThrottle: the value effect runs its
\* body for the first time (isInitialMountRef is still set, in action mode
\* the effect returned before it), initialises the timestamp and returns
\* without a cleanup.  The action timer is not touched.
ThrottleToValue(v) ==
  /\ hook = "useThrottle" /\ isFunction
  /\ phase = "mounted"
  /\ now <= Horizon
  /\ isInitialMountRef
  /\ isFunction' = FALSE
  /\ valueOrFn' = v
  /\ fnRef' = FnRefAfterEffect(v)
  /\ proxy' = ProxyAfterRender(delay)
  /\ isInitialMountRef' = FALSE
  /\ lastScheduledRef' = now
  /\ Observe(FALSE, FALSE, 0, "none")
  /\ UNCHANGED <<otherHooks, hook, callbackRef, phase, now, delay, timers, debouncedValue,
                 throttledValue, timeoutRef, valueTimeoutRef, latestValueRef,
                 pendingValueRef, latestArgsRef, isFirstRunRef, fnLastRanRef,
                 mountTime, delayChanges, invoked, invokedFn>>

\* a slip: the unmount effect's cleanup is missing
UnmountTimers_ValueOnly(ts) == ClearIfSet(ts, valueTimeoutRef)

\* The clearTimeout calls of the cleanups that run on unmount.  useDebounce
\* and useThrottle: the value effect's and the unmount effect's;
\* useTimeout: the timeout effect's, which exists when the effect armed.
UnmountTimers(ts) ==
  IF hook = "useTimeout"
  THEN IF TimeoutValid(delay) THEN ClearIfSet(ts, timeoutRef) ELSE ts
  ELSE ClearIfSet(ClearIfSet(ts, valueTimeoutRef), timeoutRef)

\* Unmount: the cleanups run; the value effect's resets valueTimeoutRef,
\* the others leave the stale handle in timeoutRef.
Unmount ==
  /\ phase = "mounted"
  /\ phase' = "unmounted"
  /\ timers' = UnmountTimers(timers)
  /\ valueTimeoutRef' = Undefined
  /\ ObserveStep(FALSE, FALSE, 0, "none")
  /\ disposals' = disposals + 1
  /\ clears' = 0
  /\ UNCHANGED <<fnChangedPending, reentries, callbackTrace>>
  /\ UNCHANGED ctl
  /\ UNCHANGED <<otherHooks, hook, isFunction, fnRef, callbackRef, proxy, now, delay, valueOrFn, debouncedValue,
                 throttledValue, timeoutRef, latestValueRef, pendingValueRef,
                 latestArgsRef, isFirstRunRef, fnLastRanRef, isInitialMountRef,
                 lastScheduledRef, mountTime, delayChanges, invoked, invokedFn>>

\* The same cleanups run once more on the unmounted instance.
UnmountAgain ==
  /\ phase = "unmounted"
  /\ disposals < MaxDisposals
  /\ timers' = UnmountTimers(timers)
  /\ valueTimeoutRef' = Undefined
  /\ ObserveStep(FALSE, FALSE, 0, "none")
  /\ disposals' = disposals + 1
  /\ clears' = 0
  /\ UNCHANGED <<fnChangedPending, reentries, callbackTrace>>
  /\ UNCHANGED ctl
  /\ UNCHANGED <<otherHooks, hook, isFunction, fnRef, callbackRef, proxy, phase, now, delay, valueOrFn, debouncedValue,
                 throttledValue, timeoutRef, latestValueRef, pendingValueRef,
                 latestArgsRef, isFirstRunRef, fnLastRanRef, isInitialMountRef,
                 lastScheduledRef, mountTime, delayChanges, invoked, invokedFn>>

\* -------------------------- useLocalStorage, useSessionStorage, useCookie
\* `item ? JSON.parse(item) : initialValue` inside try/catch, the lazy
\* initialiser of useState
ReadInitial(item, iv) ==
  IF item # NoItem /\ item # "" /\ JsonValid(item) THEN JsonParse(item) ELSE iv

\* a slip: every falsy value removes the item
ItemAfterSet_Falsy(v) ==
  IF v \in {JsNull, JsUndefined, JsBoolean(FALSE), JsNumber(0), JsString(0)}
  THEN NoItem ELSE JsonStringify(v)

\* what setValue leaves in the store: removeItem for null and undefined,
\* setItem(key, JSON.stringify(v)) otherwise
ItemAfterSet(v) ==
  IF v = JsNull \/ v = JsUndefined THEN NoItem ELSE JsonStringify(v)

\* what setCookie leaves in the cookie jar under the key
CookieAfterSet(v) == EncodeURIComponent(JsonStringify(v))

\* a slip: the ref keeps the initialValue of the first render
InitialValueRefAfterEffect_Stale(iv) == initialValueRef

\* initialValueRef.current = initialValue (deps [initialValue])
InitialValueRefAfterEffect(iv) == iv

\* the commit of the first render: the initialValueRef effect and the
\* effect that attaches the storage listener (useCookie has no effect)
StorageMount ==
  /\ hook \in StoreHooks
  /\ phase = "rendered"
  /\ phase' = "mounted"
  /\ initialValueRef' = InitialValueRefAfterEffect(initialValue)
  /\ lastCall' = NoCall
  /\ UNCHANGED <<items, storedValue, renderedValue, initialValue, expected>>
  /\ UNCHANGED <<progRest, obs, marks, ctl, click, simple>>

\* A re-render, passing initialValue iv: setValue closes over the state of
\* this render and the initialValueRef effect stores iv.
StorageRerender(iv) ==
  /\ hook \in StoreHooks
  /\ phase = "mounted"
  /\ renderedValue' = storedValue
  /\ initialValue' = iv
  /\ initialValueRef' = InitialValueRefAfterEffect(iv)
  /\ lastCall' = NoCall
  /\ UNCHANGED <<items, storedValue, expected>>
  /\ UNCHANGED <<timing, click, simple>>

\* setValue(v) with a plain value v, through the setter of the latest
\* render
SetValue(v) ==
  /\ hook \in StoreHooks
  /\ phase # "rendered"
  /\ storedValue' = v
  /\ items' = [items EXCEPT ![OwnStore] =
                 IF hook = "useCookie" THEN CookieAfterSet(v)
                                       ELSE ItemAfterSet(v)]
  /\ expected' = v
  /\ lastCall' = [NoCall EXCEPT !.op = "setValue", !.value = v,
                                !.before = storedValue]
  /\ UNCHANGED <<renderedValue, initialValue, initialValueRef>>
  /\ UNCHANGED <<timing, click, simple>>

\* the argument setValue passes to an updater function: storedValue of
\* the render whose setter is called
UpdaterArgument == renderedValue

\* setValue(p => p + 1) on a counter, through the setter of the latest
\* render
SetValueFn ==
  /\ hook \in StoreHooks
  /\ phase # "rendered"
  /\ UpdaterArgument.type = "number" /\ UpdaterArgument.v < MaxNumber
  /\ expected.type = "number" /\ expected.v < MaxNumber
  /\ LET valueToStore == JsNumber(UpdaterArgument.v + 1)
     IN /\ storedValue' = valueToStore
        /\ items' = [items EXCEPT ![OwnStore] =
                       IF hook = "useCookie" THEN CookieAfterSet(valueToStore)
                                             ELSE ItemAfterSet(valueToStore)]
        /\ lastCall' = [NoCall EXCEPT !.op = "update", !.value = valueToStore,
                                      !.before = storedValue]
  /\ expected' = JsNumber(expected.v + 1)
  /\ UNCHANGED <<renderedValue, initialValue, initialValueRef>>
  /\ UNCHANGED <<timing, click, simple>>

\* the storage events the window may dispatch
StorageEvents ==
  [key : Keys, storageArea : {"localStorage", "sessionStorage"},
   newValue : {NoItem} \cup ForeignTexts]

\* a slip: the storageArea test is missing
StateAfterStorageEvent_AnyArea(e) ==
  IF e.key # Key THEN storedValue
  ELSE IF e.newValue = NoItem THEN initialValueRef
  ELSE IF JsonValid(e.newValue) THEN JsonParse(e.newValue)
  ELSE storedValue

\* handleStorageChange: the state it leaves
StateAfterStorageEvent(e) ==
  IF e.key # Key THEN storedValue
  ELSE IF e.storageArea # OwnStore THEN storedValue
  ELSE IF e.newValue = NoItem THEN initialValueRef
  ELSE IF JsonValid(e.newValue) THEN JsonParse(e.newValue)
  ELSE storedValue

\* A storage event reaches the listener.  JSON.parse runs inside try/catch,
\* nothing else in the handler throws.
StorageEvent(e) ==
  /\ hook \in StorageHooks
  /\ phase = "mounted"
  /\ storedValue' = StateAfterStorageEvent(e)
  /\ expected' = storedValue'
  /\ lastCall' = [op |-> "storage", key |-> e.key, area |-> e.storageArea,
                  newValue |-> e.newValue, value |-> JsUndefined,
                  before |-> storedValue, threw |-> FALSE]
  /\ UNCHANGED <<items, renderedValue, initialValue, initialValueRef>>
  /\ UNCHANGED <<timing, click, simple>>

\* the unmount: the listener is removed
StorageUnmount ==
  /\ hook \in StoreHooks
  /\ phase = "mounted"
  /\ phase' = "unmounted"
  /\ lastCall' = NoCall
  /\ UNCHANGED <<items, storedValue, renderedValue, initialValue,
                 initialValueRef, expected>>
  /\ UNCHANGED <<progRest, obs, marks, ctl, click, simple>>

\* -------------------------------------------------------- useClickOutside
\* a slip: only descendants count as inside
Contains_ChildrenOnly(target) == target = "descendant"

\* ref.current.contains(target): the element itself and its descendants
Contains(target) == target \in {"element", "descendant"}

\* handleClickOutside for an event with that target:
\* `if (ref.current && target && !ref.current.contains(target))
\* callbackRef.current()`
ClickOutcome(target) ==
  IF refCurrent = NoElement THEN "skipped"
  ELSE IF target = NoElement THEN "skipped"
  ELSE IF Contains(target) THEN "skipped"
  ELSE "called"

\* the event types the effect attaches to and its cleanup detaches from
ListenedTypes(et) ==
  IF et = "mousedown" THEN {"mousedown", "touchstart"} ELSE {et}

\* the listener effect's body (deps [eventType, enabled]) with a new
\* handleClickOutside h
ClickAttach(ls, et, en, h) ==
  IF en THEN ls \cup {[type |-> t, handler |-> h] : t \in ListenedTypes(et)}
  ELSE ls

\* a slip: the cleanup forgets the touchstart listener
ClickCleanup_TypeOnly(ls, et, h) == ls \ {[type |-> et, handler |-> h]}

\* the cleanup of the effect run that created handler h under eventType
\* et; a run that returned early left no cleanup and no listener
ClickCleanup(ls, et, h) ==
  ls \ {[type |-> t, handler |-> h] : t \in ListenedTypes(et)}

\* the commit of the first render: React attaches the ref when the element
\* is rendered, then the callbackRef effect and the listener effect run
ClickMount(attached) ==
  /\ hook = "useClickOutside"
  /\ phase = "rendered"
  /\ phase' = "mounted"
  /\ refCurrent' = IF attached THEN "element" ELSE NoElement
  /\ callbackRef' = FnRefAfterEffect(valueOrFn)
  /\ handler' = handler + 1
  /\ listeners' = ClickAttach(listeners, eventType, enabled, handler + 1)
  /\ lastClick' = NoClick
  /\ UNCHANGED <<eventType, enabled, valueOrFn>>
  /\ UNCHANGED <<progCore, obs, marks, ctl, store, simple>>

\* A re-render with callback cb and options et, en, at least one of them
\* new: the callbackRef effect, and for new options the previous listener
\* effect's cleanup and the effect.
ClickRerender(cb, et, en) ==
  /\ hook = "useClickOutside"
  /\ phase = "mounted"
  /\ cb # valueOrFn \/ et # eventType \/ en # enabled
  /\ valueOrFn' = cb
  /\ callbackRef' = FnRefAfterEffect(cb)
  /\ eventType' = et
  /\ enabled' = en
  /\ IF et # eventType \/ en # enabled
     THEN /\ handler < MaxHandlers
          /\ handler' = handler + 1
          /\ listeners' = ClickAttach(ClickCleanup(listeners, eventType, handler),
                                      et, en, handler + 1)
     ELSE UNCHANGED <<handler, listeners>>
  /\ lastClick' = NoClick
  /\ UNCHANGED refCurrent
  /\ UNCHANGED <<phase, progCore, obs, marks, ctl, store, simple>>

\* the document events
DocumentEvents ==
  [type : {"mousedown", "touchstart", "click", "keydown"},
   target : {NoElement, "element", "descendant", "outside"}]

\* The document dispatches event e: every listener of that type runs.
DocumentEvent(e) ==
  /\ hook = "useClickOutside"
  /\ LET ran == {l \in listeners : l.type = e.type}
     IN lastClick' = [op |-> "event", type |-> e.type, target |-> e.target,
                      invocations |->
                        IF ClickOutcome(e.target) = "called"
                        THEN Cardinality(ran) ELSE 0,
                      threw |-> ran # {} /\ ClickOutcome(e.target) = "threw",
                      fn |-> callbackRef]
  /\ UNCHANGED <<eventType, enabled, listeners, handler, refCurrent>>
  /\ UNCHANGED <<timing, store, simple>>

\* the unmount: the listener effect's cleanup; React resets the ref
ClickUnmount ==
  /\ hook = "useClickOutside"
  /\ phase = "mounted"
  /\ phase' = "unmounted"
  /\ listeners' = ClickCleanup(listeners, eventType, handler)
  /\ refCurrent' = NoElement
  /\ lastClick' = NoClick
  /\ UNCHANGED <<eventType, enabled, handler>>
  /\ UNCHANGED <<progRest, obs, marks, ctl, store, simple>>

\* -------------------------------------------------------------- useToggle
\* useState's queue: an update is a function of the previous state
\* (`(prev) => !prev`) or a plain value
ApplyUpdate(u, prev) == IF u.kind = "negate" THEN ~prev ELSE u.b

\* the state a render computes: the queued updates applied in order
RECURSIVE ApplyUpdates(_, _)
ApplyUpdates(us, prev) ==
  IF us = <<>> THEN prev ELSE ApplyUpdates(Tail(us), ApplyUpdate(Head(us), prev))

\* a slip: toggle negates the value its render saw, `setValue(!value)`
ToggleUpdate_Closure == [kind |-> "set", b |-> ~value]

\* toggle: `setValue((prev) => !prev)`
ToggleUpdate == [kind |-> "negate", b |-> FALSE]

\* useCallback: the function of the previous render unless a dep changed
UseCallback(previous, prevDeps, deps, fresh) ==
  IF deps = prevDeps THEN previous ELSE fresh

\* toggle()
ToggleCall ==
  /\ hook = "useToggle"
  /\ Len(updates) < MaxBatch
  /\ toggled.toggles + toggled.sets < MaxCalls
  /\ updates' = Append(updates, ToggleUpdate)
  /\ toggled' = [toggled EXCEPT !.expected = ~@, !.toggles = @ + 1]
  /\ UNCHANGED <<value, toggleInitialValue, toggle, setToggleValue>>
  /\ UNCHANGED <<prevValue, prevRef, prevResult, prevRenders>>
  /\ UNCHANGED <<timing, store, click>>

\* setValue(newValue), the third element of the tuple
SetToggleValueCall(newValue) ==
  /\ hook = "useToggle"
  /\ Len(updates) < MaxBatch
  /\ toggled.toggles + toggled.sets < MaxCalls
  /\ updates' = Append(updates, [kind |-> "set", b |-> newValue])
  /\ toggled' = [toggled EXCEPT !.expected = newValue, !.sets = @ + 1]
  /\ UNCHANGED <<value, toggleInitialValue, toggle, setToggleValue>>
  /\ UNCHANGED <<prevValue, prevRef, prevResult, prevRenders>>
  /\ UNCHANGED <<timing, store, click>>

\* A render with initialValue iv, after a batch of calls or because the
\* parent rendered: useState ignores its argument after the first render
\* and applies the queue; both useCallback have deps [].
ToggleRender(iv) ==
  /\ hook = "useToggle"
  /\ toggled.renders < MaxRenders
  /\ updates # <<>> \/ iv # toggleInitialValue
  /\ value' = ApplyUpdates(updates, value)
  /\ updates' = <<>>
  /\ toggleInitialValue' = iv
  /\ toggle' = UseCallback(toggle, <<>>, <<>>, toggled.renders + 1)
  /\ setToggleValue' = UseCallback(setToggleValue, <<>>, <<>>, toggled.renders + 1)
  /\ toggled' = [toggled EXCEPT !.renders = @ + 1]
  /\ UNCHANGED <<prevValue, prevRef, prevResult, prevRenders>>
  /\ UNCHANGED <<timing, store, click>>

\* ------------------------------------------------------------ usePrevious
\* a slip: the effect that stores the value is missing
PrevRefAfterEffect_Missing(ref, old, v) == ref

\* `useEffect(() => { ref.current = value }, [value])` after a render with
\* value v, the render before having had value old
PrevRefAfterEffect(ref, old, v) == IF v # old THEN v ELSE ref

\* the commit of the first render: the effect runs
PreviousMount ==
  /\ hook = "usePrevious"
  /\ phase = "rendered"
  /\ phase' = "mounted"
  /\ prevRef' = prevValue
  /\ UNCHANGED <<prevValue, prevResult, prevRenders>>
  /\ UNCHANGED <<value, toggleInitialValue, updates, toggle, setToggleValue, toggled>>
  /\ UNCHANGED <<progRest, obs, marks, ctl, store, click>>

\* A re-render with value v: the render returns ref.current, then the
\* effect runs if v is not the value of the render before.
PreviousRerender(v) ==
  /\ hook = "usePrevious"
  /\ phase = "mounted"
  /\ prevRenders.count < MaxRenders
  /\ prevResult' = prevRef
  /\ prevValue' = v
  /\ prevRef' = PrevRefAfterEffect(prevRef, prevValue, v)
  /\ prevRenders' = [count |-> prevRenders.count + 1, before |-> prevValue]
  /\ UNCHANGED <<value, toggleInitialValue, updates, toggle, setToggleValue, toggled>>
  /\ UNCHANGED <<timing, store, click>>

\* One millisecond passes; the host runs every due timer first.
Tick ==
  /\ phase # "rendered"
  /\ now < EndTime
  /\ \A t \in timers : ~Due(t)
  /\ now' = now + 1
  /\ UNCHANGED <<otherHooks, hook, isFunction, fnRef, callbackRef, proxy, phase, delay, valueOrFn, timers,
                 debouncedValue, throttledValue, timeoutRef, valueTimeoutRef,
                 latestValueRef, pendingValueRef, latestArgsRef, isFirstRunRef,
                 fnLastRanRef, isInitialMountRef, lastScheduledRef>>
  /\ UNCHANGED <<obs, marks, ctl>>

ConstantWindow == delayChanges = 0
NoDueTimer == \A t \in timers : ~Due(t)

\* the delays a re-render may pass: the same one, or a new one
NextDelays == IF delayChanges < MaxDelayChanges THEN Delays ELSE {delay}
\* the values a re-render may pass: the same one, or the next new one
NextValues == {valueOrFn} \cup (IF inputCount < MaxInputs THEN {inputCount + 1} ELSE {})
\* the argument lists a proxy call may pass
NextArgs == IF inputCount < MaxInputs THEN {<<inputCount + 1>>} ELSE {}
\* the callables a re-render may pass besides the same one
NextFns == IF valueOrFn < MaxFnChanges THEN {valueOrFn + 1} ELSE {}
\* every delay a re-render of useTimeout may pass, a negative one included
NextAnyTimeoutDelays ==
  IF delayChanges < MaxDelayChanges THEN AnyDelays \cup {Null} ELSE {delay}

TimerFire ==
  \E t \in timers :
    \/ DebounceValueTimeout(t)
    \/ DebounceFnTimeout(t)
    \/ ThrottleValueTimeout(t)
    \/ ThrottleFnTimeout(t)
    \/ TimeoutCallback(t)

Next ==
  \/ DebounceMount
  \/ ThrottleMount
  \/ \E v \in NextValues, d \in NextDelays : DebounceRerender(v, d)
  \/ \E v \in NextValues, d \in NextDelays : ThrottleRerender(v, d)
  \/ \E d \in NextDelays : ProxyRerender(d)
  \/ \E args \in NextArgs : DebouncedFn(args)
  \/ \E args \in NextArgs : ThrottledFn(args)
  \/ TimerFire
  \/ Unmount
  \/ Tick

Spec == Init /\ [][Next]_vars

\* The host's event loop runs a due timer's callback and the clock goes on.
FairSpec == Spec /\ WF_vars(TimerFire) /\ WF_vars(Tick)

\* Any delay: the first render may pass a negative delay as well.
AnyDelayInit == InitWith(RateHooks, AnyDelays)

AnyDelaySpec == AnyDelayInit /\ [][Next]_vars

\* Repeated cancellation: the three hooks, with useTimeout's clear() and
\* reset() and a second run of the unmount cleanups.
CancelInit == InitWith(RateHooks \cup {"useTimeout"}, Delays)

CancelNext ==
  \/ Next
  \/ TimeoutMount
  \/ TimeoutClear
  \/ TimeoutReset
  \/ UnmountAgain

CancelSpec == CancelInit /\ [][CancelNext]_vars

\* useTimeout alone, with every delay a caller can pass.
TimeoutInit == InitWith({"useTimeout"}, AnyDelays)

TimeoutNext ==
  \/ TimeoutMount
  \/ \E cb \in {valueOrFn} \cup NextFns, d \in NextAnyTimeoutDelays :
       TimeoutRerender(cb, d)
  \/ TimeoutClear
  \/ TimeoutReset
  \/ TimerFire
  \/ Unmount
  \/ Tick

TimeoutSpec == TimeoutInit /\ [][TimeoutNext]_vars

\* The hooks that keep a value in a store.  The first render finds the
\* own store empty or holding a text some other code wrote (the cookie
\* jar: empty) and passes one of two initial values.
InitialValues == {JsNumber(0), JsBoolean(FALSE)}

StoreInit ==
  /\ TimingInit(StoreHooks, {0})
  /\ ClickIdle
  /\ SimpleIdle
  /\ initialValue \in InitialValues
  /\ \E item \in {NoItem} \cup (IF hook = "useCookie" THEN {} ELSE ForeignTexts) :
       /\ items = [a \in Stores |-> IF a = OwnStore THEN item ELSE NoItem]
       /\ storedValue = ReadInitial(item, initialValue)
  /\ renderedValue = storedValue
  /\ initialValueRef = initialValue
  /\ expected = storedValue
  /\ lastCall = NoCall

StoreNext ==
  \/ StorageMount
  \/ \E iv \in InitialValues : StorageRerender(iv)
  \/ \E v \in JsValues : SetValue(v)
  \/ SetValueFn
  \/ \E e \in StorageEvents : StorageEvent(e)
  \/ StorageUnmount

StoreSpec == StoreInit /\ [][StoreNext]_vars

\* useClickOutside: the first render passes any options.
ClickInit ==
  /\ TimingInit({"useClickOutside"}, {0})
  /\ StoreIdle
  /\ SimpleIdle
  /\ eventType \in {"mousedown", "click"}
  /\ enabled \in BOOLEAN
  /\ listeners = {}
  /\ handler = 0
  /\ refCurrent = NoElement
  /\ lastClick = NoClick

ClickNext ==
  \/ \E attached \in BOOLEAN : ClickMount(attached)
  \/ \E cb \in {valueOrFn} \cup NextFns, et \in {"mousedown", "click"},
        en \in BOOLEAN : ClickRerender(cb, et, en)
  \/ \E e \in DocumentEvents : DocumentEvent(e)
  \/ ClickUnmount

ClickSpec == ClickInit /\ [][ClickNext]_vars

\* useToggle: the first render passes either initial value.
ToggleInit ==
  /\ TimingInit({"useToggle"}, {0})
  /\ StoreIdle
  /\ ClickIdle
  /\ toggleInitialValue \in BOOLEAN
  /\ value = toggleInitialValue
  /\ updates = <<>>
  /\ toggle = 1
  /\ setToggleValue = 1
  /\ toggled = NoCalls(toggleInitialValue)
  /\ prevValue = JsUndefined
  /\ prevRef = JsUndefined
  /\ prevResult = JsUndefined
  /\ prevRenders = FirstRender

ToggleNext ==
  \/ ToggleCall
  \/ \E newValue \in BOOLEAN : SetToggleValueCall(newValue)
  \/ \E iv \in BOOLEAN : ToggleRender(iv)

ToggleSpec == ToggleInit /\ [][ToggleNext]_vars

\* usePrevious: the first render passes any value and returns ref.current,
\* which useRef() left undefined.
PreviousValues ==
  {JsUndefined, JsNull, JsBoolean(FALSE), JsNumber(0), JsNumber(1), JsString(0)}

PreviousInit ==
  /\ TimingInit({"usePrevious"}, {0})
  /\ StoreIdle
  /\ ClickIdle
  /\ value = FALSE
  /\ toggleInitialValue = FALSE
  /\ updates = <<>>
  /\ toggle = 0
  /\ setToggleValue = 0
  /\ toggled = NoCalls(FALSE)
  /\ prevValue \in PreviousValues
  /\ prevRef = JsUndefined
  /\ prevResult = prevRef
  /\ prevRenders = FirstRender

PreviousNext ==
  \/ PreviousMount
  \/ \E v \in PreviousValues : PreviousRerender(v)

PreviousSpec == PreviousInit /\ [][PreviousNext]_vars

\* Wrapped actions that call the proxy they are wrapped in.
ReentrantNext ==
  \/ Next
  \/ \E t \in timers : DebounceFnTimeoutReentrant(t)
  \/ \E t \in timers : ThrottleFnTimeoutReentrant(t)

ReentrantSpec == Init /\ [][ReentrantNext]_vars

\* Re-renders that pass another callable: an action-mode instance, its
\* proxy calls and timers, and re-renders with another delay or callable.
CallableInit == Init /\ isFunction

CallableNext ==
  \/ DebounceMount
  \/ ThrottleMount
  \/ \E d \in NextDelays : ProxyRerender(d)
  \/ \E f \in NextFns : FnRerender(f)
  \/ \E args \in NextArgs : DebouncedFn(args)
  \/ \E args \in NextArgs : ThrottledFn(args)
  \/ TimerFire
  \/ Unmount
  \/ Tick

CallableSpec == CallableInit /\ [][CallableNext]_vars

\* Re-renders that pass a plain value where a callable was passed before:
\* an action-mode instance, its proxy calls and timers, and the re-render
\* that passes the payload of the latest input as a plain value.
ModeInit == Init /\ isFunction

ModeNext ==
  \/ DebounceMount
  \/ ThrottleMount
  \/ \E d \in NextDelays : ProxyRerender(d)
  \/ \E args \in NextArgs : DebouncedFn(args)
  \/ \E args \in NextArgs : ThrottledFn(args)
  \/ DebounceToValue(inputCount)
  \/ ThrottleToValue(inputCount)
  \/ TimerFire
  \/ Unmount
  \/ Tick

ModeSpec == ModeInit /\ [][ModeNext]_vars

\* useThrottle in both modes side by side: a component that calls
\* useThrottle(value, delay) and useThrottle(fn, delay) with the same
\* delay.  The value-mode refs belong to the first instance and the
\* action-mode refs to the second; isFunction tells whose handler runs
\* next.  The second instance gets the same input timing as the first:
\* its first call at mount (the first instance counts the mount as a
\* firing), and one call in the instant of every value change.
PairInit == InitWith({"useThrottle"}, Delays) /\ ~isFunction

\* the function instance has had the call that matches the latest value
PairInSync == PayloadOf(latestArgsRef) > valueOrFn

\* the event loop turns to the other instance
PairSwitch ==
  /\ hook = "useThrottle"
  /\ phase = "mounted"
  /\ PairInSync \/ ~isFunction
  /\ isFunction' = ~isFunction
  /\ UNCHANGED <<otherHooks, hook, phase, now, delay, valueOrFn, fnRef, callbackRef,
                 proxy, timers, debouncedValue, throttledValue, timeoutRef,
                 valueTimeoutRef, latestValueRef, pendingValueRef,
                 latestArgsRef, isFirstRunRef, fnLastRanRef, isInitialMountRef,
                 lastScheduledRef>>
  /\ UNCHANGED <<obs, marks, ctl>>

PairNext ==
  \/ ThrottleMount
  \/ PairSwitch
  \/ \E args \in NextArgs : ~PairInSync /\ ThrottledFn(args)
  \/ \E v \in NextValues \ {valueOrFn} :
       /\ PairInSync /\ NoDueTimer /\ inputCount + 1 < MaxInputs
       /\ ThrottleRerender(v, delay)
  \/ \E d \in NextDelays :
       /\ PairInSync /\ NoDueTimer
       /\ valueTimeoutRef # Undefined /\ timeoutRef # Undefined
       /\ ThrottleRerender(valueOrFn, d)
  \/ \E t \in timers :
       /\ PairInSync /\ (t.cb = "fn") = isFunction
       /\ ThrottleValueTimeout(t) \/ ThrottleFnTimeout(t)
  \/ PairInSync /\ Tick

PairSpec == PairInit /\ [][PairNext]_vars

TypeOK ==
  /\ hook \in RateHooks \cup {"useTimeout", "useClickOutside", "useToggle",
                             "usePrevious"} \cup StoreHooks
  /\ value \in BOOLEAN /\ toggleInitialValue \in BOOLEAN
  /\ Len(updates) \in 0..MaxBatch
  /\ prevValue \in JsValues /\ prevRef \in JsValues /\ prevResult \in JsValues
  /\ isFunction \in BOOLEAN
  /\ phase \in {"rendered", "mounted", "unmounted"}
  /\ now \in StartTime..EndTime
  /\ delay \in AnyDelays \cup {Null}
  /\ valueOrFn \in 0..MaxInputs
  /\ fnRef \in 0..MaxInputs /\ callbackRef \in 0..MaxFnChanges
  /\ proxy \in 0..(MaxDelayChanges + 1)
  /\ \A t \in timers :
       /\ t.id \in 1..3 /\ t.cb \in {"value", "fn", "timeout"}
       /\ t.due \in StartTime..EndTime /\ t.ms \in AnyDelays
  /\ fireCount \in Nat /\ inputCount \in 0..MaxInputs
  /\ invocations \in Nat
  /\ lastOp \in {"none", "mount", "delay", "clear", "reset"}
  /\ lastOpTime \in {Never} \cup (StartTime..EndTime)
  /\ firesSinceOp \in Nat
  /\ storedValue \in JsValues /\ renderedValue \in JsValues
  /\ initialValueRef \in JsValues /\ expected \in JsValues
  /\ \A a \in Stores : items[a] \in STRING
  /\ eventType \in {"mousedown", "click"} /\ enabled \in BOOLEAN
  /\ handler \in 0..MaxHandlers
  /\ \A l \in listeners : l.handler \in 1..MaxHandlers

\* ================================================================ claims
DebounceValueMode == hook = "useDebounce" /\ ~isFunction
DebounceActionMode == hook = "useDebounce" /\ isFunction
ThrottleValueMode == hook = "useThrottle" /\ ~isFunction
ThrottleActionMode == hook = "useThrottle" /\ isFunction

\* C1: useDebounce, value mode, constant Window: the output never equals a
\* value that was followed by another update less than Window later, and
\* once Window has elapsed after the last update and the timer due then
\* has run, the output equals the final value.
C1_DebounceSettles ==
  (DebounceValueMode /\ ConstantWindow) =>
    /\ debouncedValue \notin intermediate
    /\ (phase = "mounted" /\ inputCount >= 1 /\ now - lastInputTime >= delay
          /\ NoDueTimer)
         => debouncedValue = inputCount

C1_Witness ==
  /\ DebounceValueMode /\ ConstantWindow /\ phase = "mounted"
  /\ delay >= 2 /\ inputCount >= 2
  /\ inputCount - 1 \in intermediate
  /\ now - lastInputTime >= delay /\ NoDueTimer
  /\ debouncedValue = inputCount

C3_FiringsEqualBursts ==
  (hook = "useDebounce" /\ ConstantWindow /\ phase = "mounted" /\ timers = {}
     /\ ~preempted)
    => fireCount = burstCount

\* C4: debounce and throttle, both modes: every firing delivers the payload
\* of the most recent input that preceded it, and in action mode the
\* wrapped action is called with exactly that call's argument list.
C4_LastWriteWins ==
  (hook \in RateHooks /\ fireCount >= 1) =>
    /\ lastFire.payload = lastFire.latest
    /\ isFunction => invoked = <<lastFire.latest>>

C4_Witness ==
  /\ ThrottleActionMode
  /\ fireCount >= 2 /\ lastFire.edge = "trailing"
  /\ inputCount >= 3 /\ lastFire.payload = 3 /\ invoked = <<3>>
  /\ lastFire.t > lastFire.inputTime

\* C5: useThrottle, constant Window, both modes: any two consecutive
\* firings are at least Window apart, under every interleaving of inputs
\* and timer callbacks.
C5_MinSpacing ==
  (hook = "useThrottle" /\ ConstantWindow /\ fireCount >= 2)
    => lastFire.t - prevFireTime >= delay

\* C6 as claimed: the very first call or value change after construction
\* fires immediately.
C6_FirstInputImmediate ==
  (hook = "useThrottle" /\ inputCount = 1) => lastInputImmediate

\* C6 as amended: the very first call fires immediately, at its own time
\* and with its own payload; with a constant Window the very first value
\* change fires immediately exactly when it arrives at least Window after
\* mount.
C6_FirstInputLeading ==
  (hook = "useThrottle" /\ inputCount = 1) =>
    /\ isFunction =>
         /\ lastInputImmediate
         /\ lastFire.t = lastInputTime /\ lastFire.payload = 1
         /\ lastFire.edge = "leading"
    /\ (~isFunction /\ ConstantWindow) =>
         /\ lastInputImmediate <=> lastInputTime - mountTime >= delay
         /\ lastInputImmediate =>
              /\ lastFire.t = lastInputTime /\ lastFire.payload = 1
              /\ throttledValue = 1

C6_Witness ==
  /\ ThrottleValueMode /\ ConstantWindow /\ delay >= 2
  /\ inputCount = 1 /\ lastInputImmediate
  /\ lastInputTime = mountTime + delay
  /\ throttledValue = 1

\* C7: useThrottle, constant Window.  Value mode: before mount time +
\* Window nothing fires and the output is the initial value; a first
\* firing on the trailing edge happens at mount time + Window and sets the
\* output to the latest value; when a value change has arrived, a firing
\* has happened once mount time + Window is reached and the timer due
\* then has run.  Action mode: the first proxy call fires in its own step.
C7_InitialCountsAsFired ==
  (hook = "useThrottle" /\ ConstantWindow /\ phase # "rendered") =>
    IF isFunction
    THEN inputCount = 1 => (lastInputImmediate /\ lastFire.t = lastInputTime)
    ELSE /\ now < mountTime + delay => (fireCount = 0 /\ throttledValue = 0)
         /\ (fireCount = 1 /\ lastFire.edge = "trailing") =>
              /\ lastFire.t = mountTime + delay
              /\ throttledValue = lastFire.latest
         /\ (phase = "mounted" /\ inputCount >= 1 /\ now >= mountTime + delay
               /\ NoDueTimer) => fireCount >= 1

C7_Witness ==
  /\ ThrottleValueMode /\ ConstantWindow /\ phase = "mounted" /\ delay >= 2
  /\ fireCount = 1 /\ lastFire.edge = "trailing"
  /\ inputCount >= 2 /\ throttledValue = inputCount
  /\ lastFire.t = mountTime + delay

\* C8: useThrottle, action mode, constant Window W: when the calls since
\* the leading firing at t0 ended inside (t0, t0 + W), nothing fires
\* before t0 + W, and once the timer due at t0 + W has run exactly one
\* more firing has happened, at t0 + W, with the arguments of the last
\* call.
InWindowAfterLead ==
  /\ ThrottleActionMode /\ ConstantWindow /\ phase = "mounted"
  /\ leadTime # Never
  /\ leadTime < lastInputTime /\ lastInputTime < leadTime + delay

C8_TrailingEdge ==
  InWindowAfterLead =>
    /\ firesAfterLead <= 1
    /\ now < leadTime + delay => firesAfterLead = 0
    /\ (now >= leadTime + delay /\ NoDueTimer) => firesAfterLead = 1
    /\ firesAfterLead = 1 =>
         /\ lastFire.t = leadTime + delay
         /\ lastFire.edge = "trailing"
         /\ lastFire.payload = inputCount
         /\ invoked = <<inputCount>>

C8_Witness ==
  /\ InWindowAfterLead /\ delay = 3
  /\ inputCount = 3 /\ fireCount = 2 /\ firesAfterLead = 1
  /\ lastFire.t = leadTime + 3 /\ invoked = <<3>>

\* C9: useThrottle, constant Window W: while every input has arrived
\* exactly W after the previous firing (the mount, for the first value
\* change), every input has fired in its own step on the leading edge and
\* no timer has been armed.
C9_SteadyCadence ==
  (hook = "useThrottle" /\ ConstantWindow /\ cadence /\ phase # "rendered") =>
    /\ timers = {}
    /\ fireCount = inputCount
    /\ inputCount >= 1 =>
         /\ lastInputImmediate
         /\ lastFire.t = lastInputTime
         /\ lastFire.edge = "leading"
         /\ lastFire.payload = inputCount

C9_Witness ==
  /\ ThrottleActionMode /\ ConstantWindow /\ cadence /\ delay >= 2
  /\ inputCount >= 2 /\ fireCount = inputCount
  /\ lastFire.t = prevFireTime + delay

\* C10: useThrottle, both modes, under the host's fair event loop: when
\* the latest input has not been delivered and the hook is mounted, a
\* firing that delivers the most recent payload follows, unless the hook
\* is unmounted.
LatestUndelivered ==
  /\ hook = "useThrottle" /\ phase = "mounted"
  /\ inputCount >= 1 /\ lastFire.latest # inputCount

LatestDelivered ==
  lastFire.latest = inputCount /\ lastFire.payload = inputCount

C10_TrailingDelivery ==
  LatestUndelivered ~> (LatestDelivered \/ phase = "unmounted")

C10_Witness ==
  /\ hook = "useThrottle" /\ phase = "mounted"
  /\ delayChanges >= 1 /\ inputCount >= 2
  /\ ~lastInputImmediate /\ lastFire.edge = "trailing"
  /\ LatestDelivered

C12_NoFiringAfterDisposal ==
  (hook \in RateHooks /\ phase = "unmounted") => firesAfterUnmount = 0

\* C13: useDebounce, useThrottle and useTimeout: a run of the unmount
\* cleanups (the first, or a second one) and a call of clear() (the first,
\* or a repeated one) fire nothing, deliver nothing and leave no live
\* timer, whether or not a timer was pending.
DisposeStep == disposals' = disposals + 1
ClearStep == clears' = clears + 1

C14_WindowChangeRearms ==
  hook = "useDebounce" => \A t \in timers : t.ms = delay

\* C15: useThrottle in both modes, given the same input timing and the
\* same Window changes, each change arriving while the trailing timers
\* are pending: once both instances have had every input and no timer is
\* left, the latest firing of the value instance and the latest firing of
\* the function instance happened at the same time.
FiredSinceMount(m) ==
  IF lastFireIn[m] > mountTime THEN lastFireIn[m] ELSE Never

C15_SamePolicy ==
  (hook = "useThrottle" /\ phase = "mounted" /\ PairInSync /\ timers = {})
    => FiredSinceMount(TRUE) = FiredSinceMount(FALSE)

\* C16: useDebounce and useThrottle, action mode: a re-render with another
\* callable and the same delay hands out the same proxy and leaves the
\* timers and the timer handle as they were; every firing invokes the
\* callable of the latest render.
FnChangeStep == isFunction /\ valueOrFn' # valueOrFn
FiringStep == fireCount' = fireCount + 1

C16_CallableChange ==
  [][(hook \in RateHooks) =>
       /\ FnChangeStep => UNCHANGED <<proxy, timers, timeoutRef, delay>>
       /\ (isFunction /\ FiringStep) => invokedFn' = valueOrFn
    ]_vars

\* the one debounced call's timer was pending when the callable was
\* replaced, and its callback invoked the new callable
C16_Witness ==
  /\ DebounceActionMode /\ ConstantWindow /\ delay >= 1
  /\ fnChangedPending /\ valueOrFn = 1
  /\ inputCount = 1 /\ fireCount = 1
  /\ lastFire.t = lastInputTime + delay
  /\ invoked = <<1>> /\ invokedFn = 1
  /\ proxy = 0

\* C17: useDebounce and useThrottle, value mode: the output is the initial
\* value until the first firing and the payload of the latest firing
\* after it; it changes only in a step that is a firing; and a step in
\* which a new value arrives is a firing only in useThrottle, when at
\* least Window has passed since the latest firing (the mount, before the
\* first one).
Output == IF hook = "useDebounce" THEN debouncedValue ELSE throttledValue
LastFiringOrMount == IF fireCount = 0 THEN mountTime ELSE lastFire.t
ValueInputStep == ~isFunction /\ inputCount' = inputCount + 1

C17_OutputOnlyByFiring ==
  /\ []((hook \in RateHooks /\ ~isFunction) =>
          Output = IF fireCount = 0 THEN 0 ELSE lastFire.payload)
  /\ [][(hook \in RateHooks /\ ~isFunction) =>
          /\ Output' # Output => FiringStep
          /\ (ValueInputStep /\ FiringStep) =>
               /\ hook = "useThrottle"
               /\ now - LastFiringOrMount >= delay'
       ]_vars

\* the first value fired on the leading edge, the second arrived inside
\* the window and the output still is the first
C17_Witness ==
  /\ ThrottleValueMode /\ phase = "mounted" /\ delay >= 2
  /\ inputCount = 2 /\ valueOrFn = 2
  /\ lastFire.edge = "leading" /\ lastFire.payload = 1
  /\ ~lastInputImmediate /\ timers # {}
  /\ throttledValue = 1

\* C18: useDebounce and useThrottle, whatever delay is passed, a negative
\* one included: no live timer was armed with a negative delay.
C18_NoNegativeTimer ==
  hook \in RateHooks => \A t \in timers : t.ms >= 0

\* C19: useDebounce with Window 0, both modes: the step in which an input
\* arrives fires nothing and delivers nothing; it leaves a timer armed
\* with delay 0, and the delivery is that timer's callback, a later step.
InputStep == inputCount' = inputCount + 1

C19_ZeroWindowDeferred ==
  /\ [][(hook = "useDebounce" /\ delay' = 0 /\ InputStep) =>
          /\ fireCount' = fireCount
          /\ UNCHANGED <<debouncedValue, invoked>>
          /\ \E t \in timers' :
               /\ t.ms = 0 /\ t.due = now
               /\ t.env = IF t.cb = "value" THEN inputCount'
                                            ELSE <<inputCount'>>
       ]_vars
  /\ []((hook = "useDebounce" /\ inputCount >= 1) => ~lastInputImmediate)

\* the call was delivered by the timer's callback, in the instant of the
\* call
C19_Witness ==
  /\ DebounceActionMode /\ ConstantWindow /\ delay = 0
  /\ inputCount >= 1 /\ ~lastInputImmediate
  /\ lastFire.edge = "trailing" /\ lastFire.latest = inputCount
  /\ lastFire.t = lastInputTime
  /\ invoked = <<inputCount>>

\* C20: useDebounce and useThrottle: in every reachable state at most one
\* timer of the instance is live.
C20_OneLiveTimer ==
  hook \in RateHooks => Cardinality(timers) <= 1

\* C21: useDebounce and useThrottle, action mode: when fnRef holds no
\* callable at the time the action timer's callback runs (the instance
\* was re-rendered with a plain value while the timer was pending), the
\* callback invokes nothing and counts as no firing, and it still resets
\* the handle.
FnTimerStep(t) ==
  /\ t \in timers /\ t.cb = "fn" /\ Due(t)
  /\ timers' = timers \ {t}
  /\ phase' = phase

C21_NonCallableSkipped ==
  [][\A t \in timers :
       (FnTimerStep(t) /\ ~isFunction) =>
         /\ UNCHANGED <<invoked, invokedFn, fireCount>>
         /\ timeoutRef' = Undefined
    ]_vars

\* the latest call's timer has run on the mounted instance, which holds a
\* plain value by now, and the call was not passed on
C21_Witness ==
  /\ hook \in RateHooks /\ ~isFunction /\ phase = "mounted"
  /\ latestArgsRef # <<>> /\ invoked # latestArgsRef
  /\ timeoutRef = Undefined
  /\ \A t \in timers : t.cb # "fn"

\* C22: useTimeout, with nothing but time passing after the mount (no
\* clear(), reset() or delay change): a delay >= 0 makes the callback fire
\* exactly once, at mount + delay, and never inside the mount itself; with
\* a null (undefined) or negative delay no timer is ever armed, nothing
\* fires, and reset() arms nothing.
TimeoutUndisturbed == hook = "useTimeout" /\ lastOp = "mount"
ResetStep ==
  /\ lastOp' = "reset" /\ firesSinceOp' = 0
  /\ phase' = phase /\ now' = now /\ delay' = delay /\ valueOrFn' = valueOrFn

C22_TimeoutFiresOnce ==
  /\ []((TimeoutUndisturbed /\ TimeoutValid(delay)) =>
          /\ fireCount <= 1
          /\ fireCount = 1 => lastFire.t = mountTime + delay
          /\ (fireCount = 0 /\ phase = "mounted") =>
               /\ now <= mountTime + delay
               /\ \E t \in timers : t.due = mountTime + delay)
  /\ []((hook = "useTimeout" /\ delayChanges = 0 /\ ~TimeoutValid(delay)) =>
          timers = {} /\ fireCount = 0)
  /\ [][(hook = "useTimeout" /\ phase = "rendered" /\ phase' = "mounted") =>
          UNCHANGED <<fireCount, invokedFn>>]_vars
  /\ [][(hook = "useTimeout" /\ ResetStep /\ ~TimeoutValid(delay)) =>
          timers' = {} /\ UNCHANGED <<timers, fireCount>>]_vars

\* the callback has run, delay ms after the mount, and time has gone on
C22_Witness ==
  /\ TimeoutUndisturbed /\ phase = "mounted" /\ delay >= 1
  /\ fireCount = 1 /\ lastFire.t = mountTime + delay /\ now > lastFire.t
  /\ invokedFn = callbackRef

\* C23: useTimeout: while clear() is the latest of the clear(), reset()
\* and delay-change steps, no timer is live and the callback has not run
\* since; while reset() is the latest of them and the delay is >= 0, at
\* most one timer is live, due delay ms after that reset(), and the
\* callback has run at most once since, at that time.
C23_ClearAndReset ==
  /\ (hook = "useTimeout" /\ lastOp = "clear") =>
       timers = {} /\ firesSinceOp = 0
  /\ (hook = "useTimeout" /\ lastOp = "reset" /\ TimeoutValid(delay)) =>
       /\ firesSinceOp <= 1
       /\ firesSinceOp = 1 => timers = {} /\ lastFire.t = lastOpTime + delay
       /\ firesSinceOp = 0 =>
            /\ Cardinality(timers) <= 1
            /\ \A t \in timers : t.due = lastOpTime + delay
            /\ phase = "mounted" => timers # {} /\ now <= lastOpTime + delay

\* the timer armed at mount was cleared, a later reset() armed again and
\* the callback ran once, delay ms after the reset()
C23_Witness ==
  /\ hook = "useTimeout" /\ lastOp = "reset" /\ delay >= 1
  /\ lastOpTime > mountTime
  /\ fireCount = 1 /\ firesSinceOp = 1
  /\ lastFire.t = lastOpTime + delay /\ now > lastFire.t

\* C24: useTimeout: while a delay change is the latest of the clear(),
\* reset() and delay-change steps, the timers armed before it are gone: with
\* a new delay >= 0 at most one timer is live, due the new delay after the
\* change, and the callback has run at most once since, at that time; with
\* a null or negative new delay none is live and nothing has run.  After
\* the unmount the callback never runs.
C24_DelayChangeAndUnmount ==
  /\ (hook = "useTimeout" /\ lastOp = "delay" /\ TimeoutValid(delay)) =>
       /\ firesSinceOp <= 1
       /\ firesSinceOp = 1 => timers = {} /\ lastFire.t = lastOpTime + delay
       /\ firesSinceOp = 0 =>
            /\ Cardinality(timers) <= 1
            /\ \A t \in timers : t.due = lastOpTime + delay /\ t.ms = delay
            /\ phase = "mounted" => timers # {}
  /\ (hook = "useTimeout" /\ lastOp = "delay" /\ ~TimeoutValid(delay)) =>
       timers = {} /\ firesSinceOp = 0
  /\ (hook = "useTimeout" /\ phase = "unmounted") => firesAfterUnmount = 0

\* C25: useTimeout: a re-render that passes another callback and the same
\* delay leaves the live timers and the handle as they are, and every run
\* of the timer's callback invokes the callback of the latest render.
CallbackChangeStep ==
  hook = "useTimeout" /\ valueOrFn' # valueOrFn /\ delay' = delay

C25_CallbackReplaced ==
  [][/\ CallbackChangeStep => UNCHANGED <<timers, timeoutRef, fireCount>>
     /\ (hook = "useTimeout" /\ FiringStep) => invokedFn' = valueOrFn
    ]_vars

\* the timer armed at mount ran at mount + delay and invoked the callback
\* that replaced the first one while the timer was pending
C25_Witness ==
  /\ hook = "useTimeout" /\ lastOp = "mount" /\ delay >= 1
  /\ valueOrFn >= 1 /\ invokedFn = valueOrFn
  /\ fireCount = 1 /\ lastFire.t = mountTime + delay

ForeignEvent ==
  /\ lastCall.op = "storage"
  /\ lastCall.key # Key \/ lastCall.area # OwnStore

OwnEvent ==
  /\ lastCall.op = "storage"
  /\ lastCall.key = Key /\ lastCall.area = OwnStore

C29_FunctionalUpdates ==
  hook \in StoreHooks => storedValue = expected

\* C30: useClickOutside: right after a document event the callback has
\* been invoked exactly once if the hook is enabled, the event's type is
\* one it listens to (mousedown and touchstart for eventType 'mousedown',
\* click alone for 'click'), the ref is attached, the target is not null
\* and the target is neither the element nor one of its descendants; in
\* every other case it has not been invoked; nothing is thrown.
ClickIsOutside ==
  /\ enabled
  /\ \/ eventType = "mousedown" /\ lastClick.type \in {"mousedown", "touchstart"}
     \/ eventType = "click" /\ lastClick.type = "click"
  /\ refCurrent # NoElement
  /\ lastClick.target # NoElement
  /\ lastClick.target # "element" /\ lastClick.target # "descendant"

C30_OutsideOnly ==
  (hook = "useClickOutside" /\ lastClick.op = "event") =>
    /\ lastClick.invocations = (IF ClickIsOutside THEN 1 ELSE 0)
    /\ ~lastClick.threw

\* a touchstart outside the element invoked the callback once
C30_Witness ==
  /\ hook = "useClickOutside" /\ lastClick.op = "event"
  /\ lastClick.type = "touchstart" /\ lastClick.target = "outside"
  /\ lastClick.invocations = 1

\* C31: useClickOutside across re-renders and the unmount: the document
\* holds the listeners of the latest effect run while the hook is mounted
\* and enabled and none of the hook's otherwise, so a re-render that turns
\* enabled on attaches them, one that turns it off detaches them and the
\* unmount detaches them; an event invokes the callback only on a mounted,
\* enabled instance, and then the callback of the latest render; a
\* re-render that only replaces the callback leaves the listeners and the
\* handler as they are.
ClickListening ==
  {[type |-> t, handler |-> handler] : t \in ListenedTypes(eventType)}

CallbackOnlyStep ==
  /\ hook = "useClickOutside" /\ phase = "mounted" /\ phase' = "mounted"
  /\ valueOrFn' # valueOrFn /\ eventType' = eventType /\ enabled' = enabled

C31_Reconfiguration ==
  /\ [](hook = "useClickOutside" =>
          /\ listeners = (IF phase = "mounted" /\ enabled
                          THEN ClickListening ELSE {})
          /\ lastClick.invocations > 0 =>
               /\ phase = "mounted" /\ enabled
               /\ lastClick.fn = valueOrFn)
  /\ [][CallbackOnlyStep => UNCHANGED <<listeners, handler>>]_vars

\* after a re-render that ran the listener effect again and one that
\* passed another callback, an outside event invoked the latest callback
C31_Witness ==
  /\ hook = "useClickOutside" /\ phase = "mounted" /\ enabled
  /\ handler = 2 /\ valueOrFn >= 1
  /\ lastClick.op = "event" /\ lastClick.invocations = 1
  /\ lastClick.fn = valueOrFn

\* C32: useToggle: the queued updates applied to the state give the fold
\* of all toggle() and setValue(b) calls over the first initial value, so
\* the state of a render with nothing queued is that fold, and the initial
\* value negated once per toggle when no setValue was called; a render
\* that passes another initialValue leaves the state as the calls made it;
\* toggle and setValue are the same functions on every render.
Odd(n) == n % 2 = 1

InitialValueStep ==
  hook = "useToggle" /\ toggleInitialValue' # toggleInitialValue /\ updates = <<>>

C32_ToggleFold ==
  /\ [](hook = "useToggle" =>
          /\ ApplyUpdates(updates, value) = toggled.expected
          /\ toggled.sets = 0 =>
               toggled.expected = (toggled.first # Odd(toggled.toggles))
          /\ toggle = 1 /\ setToggleValue = 1)
  /\ [][/\ InitialValueStep => value' = value
        /\ hook = "useToggle" => UNCHANGED <<toggle, setToggleValue>>]_vars

\* three toggles and a setValue in one batch of an instance re-rendered
\* with another initialValue before
C32_Witness ==
  /\ hook = "useToggle" /\ updates = <<>>
  /\ toggled.toggles = 3 /\ toggled.sets = 1 /\ toggled.renders = 3
  /\ toggleInitialValue # toggled.first
  /\ value = toggled.expected /\ value # toggled.first

\* C33: usePrevious: the first render returns undefined, and every later
\* render returns the value the render before it was given, whether or
\* not the two renders were given the same value.
C33_PreviousRender ==
  hook = "usePrevious" =>
    prevResult = (IF prevRenders.count = 1 THEN JsUndefined
                  ELSE prevRenders.before)

\* a third render given the value of the second one returned that value,
\* the first render having been given another one
C33_Witness ==
  /\ hook = "usePrevious" /\ prevRenders.count = 3
  /\ prevValue = JsNumber(1) /\ prevRenders.before = JsNumber(1)
  /\ prevResult = JsNumber(1) /\ prevRef = JsNumber(1)

\* C34: useThrottle, both modes: a step in which an input fires on the
\* leading edge leaves no timer of the instance pending, so no timer
\* armed before that input can fire after it.
LeadingStep ==
  /\ hook = "useThrottle"
  /\ fireCount' = fireCount + 1 /\ lastFire'.edge = "leading"

C34_LeadingCancelsTrailing ==
  [][LeadingStep => timers' = {}]_vars

\* C35: useThrottle with a constant Window, both modes: every pending
\* timer is due exactly Window after the latest firing (in value mode the
\* mount counts as one) and was armed with a delay in (0, Window]; as the
\* due time depends on the latest firing alone, inputs that arrive while
\* the timer is pending do not move it.
C35_TrailingDue ==
  (hook = "useThrottle" /\ ConstantWindow) =>
    \A t \in timers :
      /\ t.due = LastFiringOrMount + delay
      /\ 0 < t.ms /\ t.ms <= delay

\* C36: useDebounce and useThrottle, both modes: in every timer callback
\* the statement that reads and delivers the latest payload runs before
\* the one that stores the last-run timestamp and before the one that
\* resets the handle.
C36_DeliverFirst ==
  (hook \in RateHooks /\ callbackTrace # <<>>) =>
    /\ ~RunsBefore(callbackTrace, "timestamp", "deliver")
    /\ ~RunsBefore(callbackTrace, "clear", "deliver")

\* C37: useThrottle, value mode: a re-render that passes another delay and
\* the same value is no input: it delivers nothing, so the output stays as
\* it was, and it leaves the last-fire timestamp where it was.
DelayOnlyStep ==
  /\ hook = "useThrottle" /\ ~isFunction
  /\ delay' # delay /\ valueOrFn' = valueOrFn

C37_WindowChangeIsNoInput ==
  [][DelayOnlyStep =>
       /\ fireCount' = fireCount
       /\ throttledValue' = throttledValue
       /\ lastScheduledRef' = lastScheduledRef]_vars

\* C38: useDebounce and useThrottle, action mode: the wrapped action has
\* been called at most as often as the proxy, so an instance whose proxy
\* was never called, however often it was rendered, has not called it.
C38_InvokedOnlyByFirings ==
  (hook \in RateHooks /\ isFunction) => invocations <= inputCount

\* C39: useDebounce and useThrottle, action mode: every live timer of the
\* instance is the one timeoutRef holds.
C39_NoOrphanTimers ==
  (hook \in RateHooks /\ isFunction) =>
    \A t \in timers : t.id = timeoutRef

====
